---- MODULE Spec2Model ----
(***************************************************************************)
(* A model of the data-wrangling pipelines of this repository:             *)
(*   01-log-file-cleaner/src/log_cleaner.py     class LogCleaner           *)
(*   02-bug-report-etl/src/bug_report_etl.py    class BugReportETL         *)
(*                                                                         *)
(* A DataFrame is a sequence of rows, a row a record of cells.  A cell is  *)
(* a tagged value: Null (None / NaN), NaT, Str (a text used only as a      *)
(* whole: a categorical label), Txt (a text the code looks into: a tuple   *)
(* of one-character strings), Num (an integer) or an instant.              *)
(*                                                                         *)
(* Left out of the model: the "reason" and wall-clock "timestamp" keys of  *)
(* a lineage entry (constant text and the clock), file readers/writers,    *)
(* print().  Numbers are integers; texts are over the characters listed.   *)
(***************************************************************************)
EXTENDS Integers, Sequences, FiniteSets, TLC

(***************************************************************************)
(* Bounds of the model.                                                    *)
(***************************************************************************)
\* rows of a dataset handed to a LogCleaner
MaxRows == 2
\* operations called on one pipeline instance
MaxCalls == 2
\* length of the exhaustively enumerated parser inputs
MaxTextLen == 3

(***************************************************************************)
(* Cell values.                                                            *)
(***************************************************************************)
Null == [k |-> "null"]
NaT == [k |-> "nat"]
Str(s) == [k |-> "str", s |-> s]
Txt(t) == [k |-> "txt", t |-> t]
Num(n) == [k |-> "num", n |-> n]
\* a float that is no integer of at most 9 digits: sign, digits of the whole
\* part, digits of the fraction (no trailing zeros)
Flt(neg, ip, fp) == [k |-> "flt", neg |-> neg, ip |-> ip, fp |-> fp]
\* float("inf"), float("-inf")
Inf(neg) == [k |-> "inf", neg |-> neg]
\* a Python list of texts
List(items) == [k |-> "list", items |-> items]
\* a pandas Timestamp: whole days and seconds since 1970-01-01T00:00:00, the
\* fractional digits of the second, and whether it carries the UTC zone
Instant(d, s, f, z) == [k |-> "ts", days |-> d, secs |-> s, frac |-> f, tz |-> z]

\* pd.isna / Series.isna / Series.notna
isna(v) == v.k \in {"null", "nat"}
notna(v) == ~isna(v)

(***************************************************************************)
(* Texts: tuples of one-character strings.                                 *)
(***************************************************************************)
Digits == <<"0", "1", "2", "3", "4", "5", "6", "7", "8", "9">>
UPPER == <<"A", "B", "C", "D", "E", "F", "G", "H", "I", "J", "K", "L", "M",
           "N", "O", "P", "Q", "R", "S", "T", "U", "V", "W", "X", "Y", "Z">>
LOWER == <<"a", "b", "c", "d", "e", "f", "g", "h", "i", "j", "k", "l", "m",
           "n", "o", "p", "q", "r", "s", "t", "u", "v", "w", "x", "y", "z">>

Range(f) == {f[i] : i \in DOMAIN f}
PosIn(seq, c) == CHOOSE i \in DOMAIN seq : seq[i] = c
IsDigit(c) == c \in Range(Digits)
DigitVal(c) == PosIn(Digits, c) - 1
\* str.isdigit(): non-empty and all digits
isdigit(t) == Len(t) > 0 /\ \A i \in DOMAIN t : IsDigit(t[i])
AllDigits(t) == \A i \in DOMAIN t : IsDigit(t[i])
\* str.lower()
LowerChar(c) == IF c \in Range(UPPER) THEN LOWER[PosIn(UPPER, c)] ELSE c
lower(t) == [i \in DOMAIN t |-> LowerChar(t[i])]
IsSpace(c) == c = " "

RECURSIVE LStrip(_)
LStrip(t) ==
    IF Len(t) > 0 /\ IsSpace(t[1]) THEN LStrip(Tail(t)) ELSE t
RECURSIVE RStrip(_)
RStrip(t) ==
    IF Len(t) > 0 /\ IsSpace(t[Len(t)]) THEN RStrip(SubSeq(t, 1, Len(t) - 1)) ELSE t
\* str.strip()
Strip(t) == RStrip(LStrip(t))

\* str.startswith
startswith(t, p) == Len(t) >= Len(p) /\ SubSeq(t, 1, Len(p)) = p
\* "w in t" for texts: w occurs in t as a substring
contains(t, w) ==
    \E i \in 0..(Len(t) - Len(w)) : SubSeq(t, i + 1, i + Len(w)) = w

RECURSIVE DigitsOfNat(_)
DigitsOfNat(n) ==
    IF n < 10 THEN <<Digits[n + 1]>> ELSE DigitsOfNat(n \div 10) \o <<Digits[(n % 10) + 1]>>
\* the text before the first point, and the text after it
RECURSIVE UpToPoint(_)
UpToPoint(t) ==
    IF Len(t) = 0 \/ t[1] = "." THEN <<>> ELSE <<t[1]>> \o UpToPoint(Tail(t))
AfterPoint(t) == SubSeq(t, Len(UpToPoint(t)) + 2, Len(t))
HasPoint(t) == Len(UpToPoint(t)) < Len(t)

\* the value of a short digit text (at most 9 digits)
RECURSIVE NatOf(_)
NatOf(t) ==
    IF Len(t) = 0 THEN 0 ELSE 10 * NatOf(SubSeq(t, 1, Len(t) - 1)) + DigitVal(t[Len(t)])

RECURSIVE StripLeadingZeros(_)
StripLeadingZeros(t) ==
    IF Len(t) > 1 /\ t[1] = "0" THEN StripLeadingZeros(Tail(t)) ELSE t
RECURSIVE StripTrailingZeros(_)
StripTrailingZeros(t) ==
    IF Len(t) > 0 /\ t[Len(t)] = "0"
    THEN StripTrailingZeros(SubSeq(t, 1, Len(t) - 1)) ELSE t

(***************************************************************************)
(* float(text), as far as the modelled texts go: an optional sign, then    *)
(* digits with at most one point (at least one digit), or one of the       *)
(* words nan / inf / infinity in any case.  Exponents are not modelled.    *)
(* A refused text is Python's ValueError.                                  *)
(***************************************************************************)
FloatWords == {<<"n", "a", "n">>, <<"i", "n", "f">>,
               <<"i", "n", "f", "i", "n", "i", "t", "y">>}
PointsIn(t) == {i \in DOMAIN t : t[i] = "."}
FloatError == [ok |-> FALSE, kind |-> "err", neg |-> FALSE, ip |-> <<>>, fp |-> <<>>]
\* the digits before and after position p, where the point is (or would be)
float_digits(body, neg, p) ==
    LET ip == SubSeq(body, 1, p - 1)
        fp == SubSeq(body, p + 1, Len(body))
    IN  IF AllDigits(ip) /\ AllDigits(fp) /\ Len(ip) + Len(fp) > 0
        THEN [ok |-> TRUE, kind |-> "fin", neg |-> neg,
              ip |-> StripLeadingZeros(IF ip = <<>> THEN <<"0">> ELSE ip),
              fp |-> StripTrailingZeros(fp)]
        ELSE FloatError
\* the text after its sign
float_unsigned(body, neg) ==
    IF lower(body) \in FloatWords
    THEN [ok |-> TRUE, kind |-> IF lower(body)[1] = "n" THEN "nan" ELSE "inf",
          neg |-> neg, ip |-> <<>>, fp |-> <<>>]
    ELSE IF Cardinality(PointsIn(body)) > 1 THEN FloatError
    ELSE float_digits(body, neg, Len(UpToPoint(body)) + 1)
float_stripped(s) ==
    IF Len(s) > 0 /\ s[1] \in {"+", "-"}
    THEN float_unsigned(Tail(s), s[1] = "-")
    ELSE float_unsigned(s, FALSE)
float(text) == float_stripped(Strip(text))

(***************************************************************************)
(* Calendar arithmetic of pandas' Timestamp (proleptic Gregorian).         *)
(***************************************************************************)
SecsPerDay == 86400
\* the last whole second a datetime64[ns] holds is 2262-04-11T23:47:16, the
\* first 1677-09-21T00:12:43: day and second-of-day of both
MaxDay == 106751
MaxDaySecs == 85636
MinDay == -106752
MinDaySecs == 763
InBounds(d, s) ==
    /\ (d < MaxDay \/ (d = MaxDay /\ s <= MaxDaySecs))
    /\ (d > MinDay \/ (d = MinDay /\ s >= MinDaySecs))

IsLeap(y) == (y % 4 = 0 /\ y % 100 # 0) \/ y % 400 = 0
DaysInMonth(y, m) ==
    IF m = 2 THEN (IF IsLeap(y) THEN 29 ELSE 28)
    ELSE IF m \in {4, 6, 9, 11} THEN 30 ELSE 31
days_from_civil(y, m, d) ==
    LET yy == IF m <= 2 THEN y - 1 ELSE y
        era == yy \div 400
        yoe == yy - era * 400
        mp == IF m > 2 THEN m - 3 ELSE m + 9
        doy == (153 * mp + 2) \div 5 + d - 1
        doe == yoe * 365 + yoe \div 4 - yoe \div 100 + doy
    IN  era * 146097 + doe - 719468
civil_from_days(z0) ==
    LET z == z0 + 719468
        era == z \div 146097
        doe == z - era * 146097
        yoe == (doe - doe \div 1460 + doe \div 36524 - doe \div 146096) \div 365
        doy == doe - (365 * yoe + yoe \div 4 - yoe \div 100)
        mp == (5 * doy + 2) \div 153
        d == doy - (153 * mp + 2) \div 5 + 1
        m == IF mp < 10 THEN mp + 3 ELSE mp - 9
        y == yoe + era * 400 + (IF m <= 2 THEN 1 ELSE 0)
    IN  [year |-> y, month |-> m, day |-> d]
\* the fields of an instant as Timestamp.isoformat() prints them
CivilAt(c, secs, frac) ==
    [year |-> c.year, month |-> c.month, day |-> c.day,
     hour |-> secs \div 3600, minute |-> (secs % 3600) \div 60,
     second |-> secs % 60, frac |-> frac]
Civil(v) == CivilAt(civil_from_days(v.days), v.secs, v.frac)

\* a number in n digits, zero-padded on the left
RECURSIVE PadLeft(_, _)
PadLeft(t, n) == IF Len(t) >= n THEN t ELSE PadLeft(<<"0">> \o t, n)
RECURSIVE PadRight(_, _)
PadRight(t, n) == IF Len(t) >= n THEN t ELSE PadRight(t \o <<"0">>, n)
UTC_OFFSET == <<"+", "0", "0", ":", "0", "0">>
\* "YYYY-MM-DD HH:MM:SS", then the fraction in 6 or 9 digits and "+00:00" when
\* there is one
IsoText(c, tz) ==
    PadLeft(DigitsOfNat(c.year), 4) \o <<"-">> \o PadLeft(DigitsOfNat(c.month), 2)
    \o <<"-">> \o PadLeft(DigitsOfNat(c.day), 2) \o <<" ">>
    \o PadLeft(DigitsOfNat(c.hour), 2) \o <<":">> \o PadLeft(DigitsOfNat(c.minute), 2)
    \o <<":">> \o PadLeft(DigitsOfNat(c.second), 2)
    \o (IF c.frac = <<>> THEN <<>>
        ELSE <<".">> \o PadRight(c.frac, IF Len(c.frac) <= 6 THEN 6 ELSE 9))
    \o (IF tz = "UTC" THEN UTC_OFFSET ELSE <<>>)
\* str(Timestamp)
StrInstant(v) == IsoText(Civil(v), v.tz)
\* str() of a cell: a text is itself, an integer its decimal digits, an
\* instant its ISO text, a missing value "nan"
str(v) ==
    IF v.k = "txt" THEN v.t
    ELSE IF v.k = "ts" THEN StrInstant(v)
    ELSE IF v.k = "num"
    THEN (IF v.n < 0 THEN <<"-">> \o DigitsOfNat(-v.n) ELSE DigitsOfNat(v.n))
    ELSE IF v.k = "flt"
    THEN (IF v.neg THEN <<"-">> ELSE <<>>) \o v.ip
         \o (IF v.fp = <<>> THEN <<>> ELSE <<".">> \o v.fp)
    ELSE IF v.k = "inf"
    THEN (IF v.neg THEN <<"-">> ELSE <<>>) \o <<"i", "n", "f">>
    ELSE <<"n", "a", "n">>

\* quotient and remainder by 86400 of a digit text of at most 10 digits
RECURSIVE DivModDay(_, _, _, _)
DivModDay(ds, i, q, r) ==
    IF i > Len(ds) THEN [q |-> q, r |-> r]
    ELSE LET x == r * 10 + DigitVal(ds[i])
         IN  DivModDay(ds, i + 1, q * 10 + x \div SecsPerDay, x % SecsPerDay)
\* the fraction 1 - 0.f of a non-empty fraction f without trailing zeros
FracComplement(f) ==
    [i \in DOMAIN f |->
        IF i = Len(f) THEN Digits[(10 - DigitVal(f[i])) + 1]
        ELSE Digits[(9 - DigitVal(f[i])) + 1]]

(***************************************************************************)
(* pd.to_datetime(x, unit='s') of a float x.  NaN gives NaT; an infinite   *)
(* or out-of-bounds count raises OutOfBoundsDatetime (a ValueError).       *)
(* Rounding of a double beyond its precision is not modelled.              *)
(***************************************************************************)
\* the outcome of a library call: a returned value, or a raised exception
Raise(exc) == [ok |-> FALSE, v |-> NaT, exc |-> exc]
Returned(v) == [ok |-> TRUE, v |-> v, exc |-> "none"]
\* OutOfBoundsDatetime is a subclass of ValueError
OutOfBounds == Raise("OutOfBoundsDatetime")
\* (mutant) the unit is forgotten: the count is taken as nanoseconds
to_datetime_no_unit(f) ==
    IF f.kind = "nan" THEN Returned(NaT)
    ELSE IF f.kind = "inf" \/ Len(f.ip) > 18 THEN OutOfBounds
    ELSE Returned(Instant(0, IF Len(f.ip) <= 9 THEN 0
                             ELSE NatOf(SubSeq(f.ip, 1, Len(f.ip) - 9)),
                          <<>>, "naive"))
\* the instant of a count of dm.q days and dm.r seconds and a fraction
epoch_instant(f, dm) ==
    LET zero == f.ip = <<"0">> /\ f.fp = <<>>
        \* whole seconds rounded away from zero for a negative count
        up == IF f.fp = <<>> THEN dm
              ELSE IF dm.r + 1 = SecsPerDay THEN [q |-> dm.q + 1, r |-> 0]
              ELSE [q |-> dm.q, r |-> dm.r + 1]
        d == IF ~f.neg \/ zero THEN dm.q
             ELSE IF up.r > 0 THEN -up.q - 1 ELSE -up.q
        s == IF ~f.neg \/ zero THEN dm.r
             ELSE IF up.r > 0 THEN SecsPerDay - up.r ELSE 0
        fr == IF ~f.neg \/ f.fp = <<>> THEN f.fp ELSE FracComplement(f.fp)
    IN  IF InBounds(d, s) THEN Returned(Instant(d, s, fr, "naive")) ELSE OutOfBounds
to_datetime_unit_s(f) ==
    IF f.kind = "nan" THEN Returned(NaT)
    ELSE IF f.kind = "inf" \/ Len(f.ip) > 10 THEN OutOfBounds
    ELSE epoch_instant(f, DivModDay(f.ip, 1, 0, 0))

(***************************************************************************)
(* pd.to_datetime(text): the date/time grammar, restricted to the forms    *)
(* the repository's data uses:                                             *)
(*   YYYY-MM-DD[( |T)HH:MM[:SS[.f]][Z|+00:00]]   ISO 8601                   *)
(*   MM/DD/YYYY[ HH:MM[:SS[.f]]]         US                                 *)
(*   DD-Mon-YYYY[ HH:MM[:SS[.f]]]        day, abbreviated month, year       *)
(*   YYYYMMDD[HHMM[SS]]                  8, 12 or 14 digits                 *)
(* Any other text, an impossible date and a date outside datetime64[ns]    *)
(* raise (the callers catch every Exception).                              *)
(***************************************************************************)
MonthAbbr == <<<<"j", "a", "n">>, <<"f", "e", "b">>, <<"m", "a", "r">>,
               <<"a", "p", "r">>, <<"m", "a", "y">>, <<"j", "u", "n">>,
               <<"j", "u", "l">>, <<"a", "u", "g">>, <<"s", "e", "p">>,
               <<"o", "c", "t">>, <<"n", "o", "v">>, <<"d", "e", "c">>>>
\* the month number of a three-letter abbreviation, 0 when it is none
MonthOf(t) ==
    IF lower(t) \in Range(MonthAbbr) THEN PosIn(MonthAbbr, lower(t)) ELSE 0
D2(t, i) == i + 1 <= Len(t) /\ IsDigit(t[i]) /\ IsDigit(t[i + 1])
D4(t, i) == D2(t, i) /\ D2(t, i + 2)
At(t, i, c) == i <= Len(t) /\ t[i] = c
\* HH:MM or HH:MM:SS as a second of the day, -1 when the text is neither
TimeOfDay(t) ==
    LET hm == Len(t) \in {5, 8} /\ D2(t, 1) /\ At(t, 3, ":") /\ D2(t, 4)
        hms == Len(t) = 8 /\ At(t, 6, ":") /\ D2(t, 7)
        h == NatOf(SubSeq(t, 1, 2))
        mi == NatOf(SubSeq(t, 4, 5))
        sec == IF Len(t) = 8 THEN NatOf(SubSeq(t, 7, 8)) ELSE 0
    IN  IF hm /\ (Len(t) = 8 => hms) /\ h < 24 /\ mi < 60 /\ sec < 60
        THEN h * 3600 + mi * 60 + sec ELSE -1
\* the text after a date of n characters: nothing, or a separator and a time
TimeText(t, n, seps) ==
    IF Len(t) = n THEN <<>>
    ELSE IF t[n + 1] \in seps THEN SubSeq(t, n + 2, Len(t)) ELSE <<"?">>
\* the second of the day of a time text HH:MM[:SS[.f]] (0 for no time text), -1
\* when it is no time
ClockOf(tt) ==
    IF tt = <<>> THEN 0
    ELSE IF HasPoint(tt) /\ ~(Len(UpToPoint(tt)) = 8 /\ isdigit(AfterPoint(tt)))
    THEN -1
    ELSE TimeOfDay(UpToPoint(tt))
FracOf(tt) == IF HasPoint(tt) THEN StripTrailingZeros(AfterPoint(tt)) ELSE <<>>
\* an instant if datetime64[ns] holds it
InstantAt(days, sod, fr, z) ==
    IF InBounds(days, sod) THEN Returned(Instant(days, sod, fr, z)) ELSE OutOfBounds
\* a checked civil date, second of the day and fraction as an instant
MakeInstant(y, m, d, sod, fr, z) ==
    IF m \in 1..12 /\ d >= 1 /\ d <= DaysInMonth(y, m) /\ sod >= 0
    THEN InstantAt(days_from_civil(y, m, d), sod, fr, z)
    ELSE Raise("DateParseError")
\* a civil date and the time text that follows it
DateAndTime(y, m, d, tt, z) == MakeInstant(y, m, d, ClockOf(tt), FracOf(tt), z)
\* the zone suffix of an ISO text with a time: "Z" or "+00:00"
ZoneLen(t) ==
    IF Len(t) > 11 /\ t[Len(t)] = "Z" THEN 1
    ELSE IF Len(t) > 16 /\ SubSeq(t, Len(t) - 5, Len(t)) = UTC_OFFSET THEN 6
    ELSE 0
\* HHMM or HHMMSS after a compact date
CompactClock(t) ==
    IF Len(t) = 8 THEN 0
    ELSE IF Len(t) = 12
    THEN TimeOfDay(SubSeq(t, 9, 10) \o <<":">> \o SubSeq(t, 11, 12))
    ELSE TimeOfDay(SubSeq(t, 9, 10) \o <<":">> \o SubSeq(t, 11, 12)
                   \o <<":">> \o SubSeq(t, 13, 14))
grammar(t) ==
    IF Len(t) >= 10 /\ D4(t, 1) /\ At(t, 5, "-") /\ D2(t, 6) /\ At(t, 8, "-") /\ D2(t, 9)
    THEN DateAndTime(NatOf(SubSeq(t, 1, 4)), NatOf(SubSeq(t, 6, 7)),
                     NatOf(SubSeq(t, 9, 10)),
                     TimeText(SubSeq(t, 1, Len(t) - ZoneLen(t)), 10, {" ", "T"}),
                     IF ZoneLen(t) > 0 THEN "UTC" ELSE "naive")
    ELSE IF Len(t) >= 10 /\ D2(t, 1) /\ At(t, 3, "/") /\ D2(t, 4) /\ At(t, 6, "/") /\ D4(t, 7)
    THEN DateAndTime(NatOf(SubSeq(t, 7, 10)), NatOf(SubSeq(t, 1, 2)),
                     NatOf(SubSeq(t, 4, 5)), TimeText(t, 10, {" "}), "naive")
    ELSE IF Len(t) >= 11 /\ D2(t, 1) /\ At(t, 3, "-") /\ At(t, 7, "-") /\ D4(t, 8)
    THEN DateAndTime(NatOf(SubSeq(t, 8, 11)), MonthOf(SubSeq(t, 4, 6)),
                     NatOf(SubSeq(t, 1, 2)), TimeText(t, 11, {" "}), "naive")
    ELSE IF Len(t) \in {8, 12, 14} /\ AllDigits(t)
    THEN MakeInstant(NatOf(SubSeq(t, 1, 4)), NatOf(SubSeq(t, 5, 6)),
                     NatOf(SubSeq(t, 7, 8)), CompactClock(t), <<>>, "naive")
    ELSE Raise("DateParseError")
to_datetime(text) == grammar(Strip(text))

(***************************************************************************)
(* The timestamp parsers.                                                  *)
(***************************************************************************)
INVALID_TIME == <<"I","N","V","A","L","I","D","_","T","I","M","E">>
INVALID_DATE == <<"I","N","V","A","L","I","D","_","D","A","T","E">>
N_A == <<"N","/","A">>
NOT_YET == <<"N","o","t"," ","Y","e","t">>
LAST_WEEK == <<"l","a","s","t"," ","w","e","e","k">>
YESTERDAY == <<"y","e","s","t","e","r","d","a","y">>

\* "try: return pd.to_datetime(float(ts), unit='s') / except (ValueError,
\* OverflowError): pass", then "try: return pd.to_datetime(ts) / except
\* Exception: return pd.NaT"
CaughtByEpochTry == {"ValueError", "OverflowError", "OutOfBoundsDatetime"}
\* an exception that leaves the parser, as its "result"
Propagated(exc) == [k |-> "raise", exc |-> exc]
\* pd.to_datetime(float(s), unit='s'): float's refusal is a ValueError
from_epoch(f) == IF f.ok THEN to_datetime_unit_s(f) ELSE Raise("ValueError")
\* (mutant) the raw text is handed back when nothing parses it
GrammarOrRaw(e, g, s) == IF e.ok THEN e.v ELSE IF g.ok THEN g.v ELSE Txt(s)
EpochThenGrammar_RawOnFailure(s) == GrammarOrRaw(from_epoch(float(s)), to_datetime(s), s)
\* (mutant) the two attempts in the other order
GrammarFirst(e, g) == IF g.ok THEN g.v ELSE IF e.ok THEN e.v ELSE NaT
GrammarThenEpoch(s) == GrammarFirst(from_epoch(float(s)), to_datetime(s))
\* the outcome e of the first try, then the outcome g of the second
TryBoth(e, g) ==
    IF e.ok THEN e.v
    ELSE IF e.exc \notin CaughtByEpochTry THEN Propagated(e.exc)
    ELSE IF g.ok THEN g.v ELSE NaT
EpochThenGrammar(s) == TryBoth(from_epoch(float(s)), to_datetime(s))

\* LogCleaner._parse_single_timestamp, from "ts = str(ts).strip()" on
timestamp_of_text(s) == IF s = INVALID_TIME THEN NaT ELSE EpochThenGrammar(s)
\* LogCleaner._parse_single_timestamp
parse_single_timestamp(ts) ==
    IF isna(ts) THEN NaT ELSE timestamp_of_text(Strip(str(ts)))

\* the texts BugReportETL._parse_date returns NaT for without parsing
DateSentinels == {INVALID_DATE, N_A, NOT_YET, <<>>, LAST_WEEK, YESTERDAY}
\* BugReportETL._parse_date, from "date_str = str(date_val).strip()" on
date_of_text(date_str) ==
    IF date_str \in DateSentinels THEN NaT ELSE EpochThenGrammar(date_str)
\* BugReportETL._parse_date
parse_date(date_val) ==
    IF isna(date_val) THEN NaT ELSE date_of_text(Strip(str(date_val)))

(***************************************************************************)
(* State.                                                                  *)
(***************************************************************************)
VARIABLES
    \* what is under test: "LogCleaner", "BugReportETL" or "fn" (a helper applied
    \* to one argument)
    cls,
    \* LogCleaner.raw_data, LogCleaner.clean_data
    raw_data, clean_data,
    \* BugReportETL.jira_data, .github_data, .excel_data, .unified_data
    jira_data, github_data, excel_data, unified_data,
    \* the cleaning_log of the instance under test
    cleaning_log,
    \* operations called so far, how many the client makes at most, and whether
    \* the last one raised
    calls, limit, raised,
    \* the method or helper last called ("none" before the first call), its
    \* argument and what it returned (Null for a method that returns self)
    fn, arg, result

lcVars == <<raw_data, clean_data, cleaning_log>>
etlVars == <<jira_data, github_data, excel_data, unified_data>>
callVars == <<calls, limit, raised>>
fnVars == <<fn, arg, result>>
vars ==
    <<cls, raw_data, clean_data, jira_data, github_data, excel_data, unified_data,
      cleaning_log, calls, limit, raised, fn, arg, result>>

\* a DataFrame attribute: None, or a frame with its rows
None == [df |-> FALSE, rows |-> <<>>]
DataFrame(rows) == [df |-> TRUE, rows |-> rows]

\* the variables of the classes not under test
NoLogCleaner ==
    raw_data = None /\ clean_data = None /\ cleaning_log = <<>>
NoETL ==
    jira_data = None /\ github_data = None /\ excel_data = None /\ unified_data = None
NoCalls == calls = 0 /\ limit = 0 /\ raised = FALSE
\* a client that makes at most n calls
Client(n) == calls = 0 /\ limit = n /\ raised = FALSE
\* one more call
Called(name) ==
    /\ calls < limit
    /\ calls' = calls + 1
    /\ fn' = name /\ arg' = Null
    /\ UNCHANGED <<cls, limit>>
NoFn == fn = "none" /\ arg = Null /\ result = Null

(***************************************************************************)
(* DataFrame primitives.                                                   *)
(***************************************************************************)
\* len(df[col].<predicate>.sum()): the rows whose cell satisfies P
CountRows(rows, P(_)) == Cardinality({i \in DOMAIN rows : P(rows[i])})
\* the rows at the positions in keep, in their order
RECURSIVE SelectRows(_, _, _)
SelectRows(rows, keep, i) ==
    IF i > Len(rows) THEN <<>>
    ELSE (IF i \in keep THEN <<rows[i]>> ELSE <<>>) \o SelectRows(rows, keep, i + 1)
\* DataFrame.drop_duplicates(subset=..., keep="first"): a row stays unless an
\* earlier row has the same key
drop_duplicates(rows, Key(_)) ==
    SelectRows(rows,
               {i \in DOMAIN rows : \A j \in 1..(i - 1) : Key(rows[j]) # Key(rows[i])},
               1)
WholeRow(r) == r

\* a class-level map is a set of <<key, value>> pairs
Keys(m) == {p[1] : p \in m}
Values(m) == {p[2] : p \in m}
Lookup(m, key) == (CHOOSE p \in m : p[1] = key)[2]
\* (mutant) a value that is no key is kept as it is
map_dict_keep_unmapped(m, v) ==
    IF v.k = "str" /\ v.s \in Keys(m) THEN Str(Lookup(m, v.s)) ELSE v
\* Series.map(dict) on one cell: a key gives its value, anything else NaN
map_dict(m, v) ==
    IF v.k = "str" /\ v.s \in Keys(m) THEN Str(Lookup(m, v.s)) ELSE Null
\* (mutant) missing cells are left as they are
fillna_keep(v, label) == v
\* Series.fillna(label) on one cell
fillna(v, label) == IF isna(v) THEN Str(label) ELSE v
\* pd.to_numeric(errors='coerce') on one cell: a number stays, a text of an
\* integer becomes that integer, any other text (and a missing cell) is NaN
\* a finite float as a cell
Number(f) ==
    IF f.fp = <<>> /\ Len(f.ip) <= 9
    THEN Num(IF f.neg THEN -NatOf(f.ip) ELSE NatOf(f.ip))
    ELSE Flt(f.neg, f.ip, f.fp)
numeric_of(f) ==
    IF ~f.ok \/ f.kind = "nan" THEN Null
    ELSE IF f.kind = "inf" THEN Inf(f.neg)
    ELSE Number(f)
\* pd.to_numeric(errors='coerce') on one cell: a number stays, a text becomes
\* the float it spells, a text that spells none (and a missing cell) NaN
to_numeric(v) ==
    IF v.k \in {"num", "flt", "inf"} THEN v
    ELSE IF v.k = "txt" THEN numeric_of(float(v.t))
    ELSE Null
\* the largest integer not above a number cell (capped at 10^9 in size)
Whole(v) == IF Len(v.ip) > 9 THEN 1000000000 ELSE NatOf(v.ip)
Floor(v) ==
    IF v.k = "num" THEN v.n
    ELSE IF ~v.neg THEN Whole(v)
    ELSE IF v.fp = <<>> THEN -Whole(v) ELSE -Whole(v) - 1
\* v < n and v > n for a number cell v and an integer n below 10^9
Less(v, n) == IF v.k = "inf" THEN v.neg ELSE Floor(v) < n
Greater(v, n) ==
    IF v.k = "inf" THEN ~v.neg
    ELSE IF v.k = "flt" /\ v.fp # <<>> THEN Floor(v) >= n
    ELSE Floor(v) > n

(***************************************************************************)
(* class LogCleaner                                                        *)
(***************************************************************************)
SEVERITY_MAP ==
    {<<"Critical", "Critical">>, <<"CRITICAL", "Critical">>, <<"P1", "Critical">>,
     <<"High", "High">>, <<"high", "High">>, <<"P2", "High">>,
     <<"Medium", "Medium">>, <<"med", "Medium">>, <<"P3", "Medium">>,
     <<"Low", "Low">>, <<"LOW", "Low">>, <<"P4", "Low">>}
ENVIRONMENT_MAP ==
    {<<"production", "production">>, <<"PRODUCTION", "production">>,
     <<"prod", "production">>,
     <<"staging", "staging">>, <<"Staging", "staging">>, <<"stg", "staging">>,
     <<"development", "development">>, <<"dev", "development">>,
     <<"DEV", "development">>}

\* (mutant) the entry replaces the log
log_step_restart(log, step, description, rows_before, rows_after, rows_affected) ==
    <<[step |-> step, description |-> description,
       rows_before |-> rows_before, rows_after |-> rows_after,
       rows_affected |-> rows_affected]>>
\* LogCleaner._log_step: one entry appended
log_step(log, step, description, rows_before, rows_after, rows_affected) ==
    Append(log, [step |-> step, description |-> description,
                 rows_before |-> rows_before, rows_after |-> rows_after,
                 rows_affected |-> rows_affected])

\* (mutant) the result of drop_duplicates is not assigned back
remove_duplicates_unassigned(st) ==
    [cd |-> st.cd,
     log |-> log_step(st.log, 1, "Removed duplicate rows", Len(st.cd), Len(st.cd), 0)]
\* A stage is an operator on st = [cd |-> the rows of clean_data, log |-> cleaning_log].
remove_duplicates(st) ==
    LET rows_before == Len(st.cd)
        after == drop_duplicates(st.cd, WholeRow)
        rows_after == Len(after)
    IN  [cd |-> after,
         log |-> log_step(st.log, 1, "Removed duplicate rows", rows_before,
                          rows_after, rows_before - rows_after)]

SeverityPresent(r) == notna(r.severity)
\* (mutant) the rows whose severity the map does not know are dropped
standardize_severity_dropna(st) ==
    LET rows_before == Len(st.cd)
        affected == CountRows(st.cd, SeverityPresent)
        mapped == [i \in DOMAIN st.cd |->
                     [st.cd[i] EXCEPT !.severity = map_dict(SEVERITY_MAP, @)]]
        after == SelectSeq(mapped, SeverityPresent)
    IN  [cd |-> after,
         log |-> log_step(st.log, 2, "Standardized severity levels", rows_before,
                          Len(after), affected)]
standardize_severity(st) ==
    LET rows_before == Len(st.cd)
        affected == CountRows(st.cd, SeverityPresent)
        after == [i \in DOMAIN st.cd |->
                    [st.cd[i] EXCEPT !.severity = map_dict(SEVERITY_MAP, @)]]
    IN  [cd |-> after,
         log |-> log_step(st.log, 2, "Standardized severity levels", rows_before,
                          Len(after), affected)]

EnvironmentPresent(r) == notna(r.environment)
standardize_environment(st) ==
    LET rows_before == Len(st.cd)
        affected == CountRows(st.cd, EnvironmentPresent)
        after == [i \in DOMAIN st.cd |->
                    [st.cd[i] EXCEPT !.environment = map_dict(ENVIRONMENT_MAP, @)]]
    IN  [cd |-> after,
         log |-> log_step(st.log, 3, "Standardized environment names", rows_before,
                          Len(after), affected)]

\* (mutant) rows_affected counts the timestamps that parsed
standardize_timestamps_parsed(st) ==
    LET rows_before == Len(st.cd)
        after == [i \in DOMAIN st.cd |->
                    [st.cd[i] EXCEPT !.timestamp = parse_single_timestamp(@)]]
    IN  [cd |-> after,
         log |-> log_step(st.log, 4, "Standardized timestamps to datetime format",
                          rows_before, Len(after),
                          Cardinality({i \in DOMAIN after : notna(after[i].timestamp)}))]
standardize_timestamps(st) ==
    LET rows_before == Len(st.cd)
        after == [i \in DOMAIN st.cd |->
                    [st.cd[i] EXCEPT !.timestamp = parse_single_timestamp(@)]]
    IN  [cd |-> after,
         log |-> log_step(st.log, 4, "Standardized timestamps to datetime format",
                          rows_before, Len(after), rows_before)]

\* the defaults of clean_response_time(min_valid=1, max_valid=10000)
MIN_VALID == 1
MAX_VALID == 10000
\* (mutant) the upper bound is exclusive
OutOfRange_half_open(v, min_valid, max_valid) ==
    notna(v) /\ (Less(v, min_valid) \/ ~Less(v, max_valid))
\* invalid_mask: "< min_valid" or "> max_valid"; a comparison with NaN is False
OutOfRange(v, min_valid, max_valid) ==
    notna(v) /\ (Less(v, min_valid) \/ Greater(v, max_valid))
\* (mutant) rows_affected also counts the values that failed the coercion
clean_response_time_counts_coerced(st, min_valid, max_valid) ==
    LET numeric == [i \in DOMAIN st.cd |->
                      [st.cd[i] EXCEPT !.response_time_ms = to_numeric(@)]]
        invalid == {i \in DOMAIN numeric :
                      OutOfRange(numeric[i].response_time_ms, min_valid, max_valid)}
        after == [i \in DOMAIN numeric |->
                    IF i \in invalid
                    THEN [numeric[i] EXCEPT !.response_time_ms = Null]
                    ELSE numeric[i]]
        nulled == {i \in DOMAIN after :
                      notna(st.cd[i].response_time_ms) /\ isna(after[i].response_time_ms)}
    IN  [cd |-> after,
         log |-> log_step(st.log, 5, "Cleaned response_time_ms", Len(after),
                          Len(after), Cardinality(nulled))]
clean_response_time(st, min_valid, max_valid) ==
    LET numeric == [i \in DOMAIN st.cd |->
                      [st.cd[i] EXCEPT !.response_time_ms = to_numeric(@)]]
        invalid == {i \in DOMAIN numeric :
                      OutOfRange(numeric[i].response_time_ms, min_valid, max_valid)}
        after == [i \in DOMAIN numeric |->
                    IF i \in invalid
                    THEN [numeric[i] EXCEPT !.response_time_ms = Null]
                    ELSE numeric[i]]
    IN  [cd |-> after,
         log |-> log_step(st.log, 5, "Cleaned response_time_ms", Len(after),
                          Len(after), Cardinality(invalid))]

INVALID_IP == <<"I","N","V","A","L","I","D","_","I","P">>
ZERO_IP == <<"0",".","0",".","0",".","0">>
\* \d{1,3}
DigitGroup(t) == Len(t) \in 1..3 /\ AllDigits(t)
\* re.match(r'^\d{1,3}\.\d{1,3}\.\d{1,3}\.\d{1,3}$', ip)
RECURSIVE DottedGroups(_, _)
DottedGroups(t, n) ==
    IF n = 1 THEN DigitGroup(t)
    ELSE HasPoint(t) /\ DigitGroup(UpToPoint(t)) /\ DottedGroups(AfterPoint(t), n - 1)
\* (mutant) each group must also be at most 255
RECURSIVE OctetsInRange(_, _)
OctetsInRange(t, n) ==
    IF n = 1 THEN DigitGroup(t) /\ NatOf(t) <= 255
    ELSE /\ HasPoint(t) /\ DigitGroup(UpToPoint(t)) /\ NatOf(UpToPoint(t)) <= 255
         /\ OctetsInRange(AfterPoint(t), n - 1)
ip_pattern_octets(t) == OctetsInRange(t, 4)
ip_pattern(t) == DottedGroups(t, 4)
\* LogCleaner._clean_single_ip, from "ip = str(ip).strip()" on
ip_of_text(s) ==
    IF s \in {INVALID_IP, ZERO_IP, <<>>} THEN Null
    ELSE IF ip_pattern(s) THEN Txt(s) ELSE Null
\* LogCleaner._clean_single_ip
clean_single_ip(ip) ==
    IF isna(ip) THEN Null ELSE ip_of_text(Strip(str(ip)))
IpMissing(r) == isna(r.ip_address)
clean_ip_addresses(st) ==
    LET before_missing == CountRows(st.cd, IpMissing)
        after == [i \in DOMAIN st.cd |->
                    [st.cd[i] EXCEPT !.ip_address = clean_single_ip(@)]]
        after_missing == CountRows(after, IpMissing)
    IN  [cd |-> after,
         log |-> log_step(st.log, 6, "Cleaned IP addresses", Len(after),
                          Len(after), after_missing - before_missing)]

UNKNOWN == <<"U","N","K","N","O","W","N">>
NAN_TEXT == <<"n","a","n">>
USR_PREFIX == <<"U","S","R","-">>
\* (mutant) whatever is no sentinel and has no prefix is given the prefix
user_id_wrap_all(s) ==
    IF s \in {UNKNOWN, <<>>, NAN_TEXT} THEN Null
    ELSE IF startswith(s, USR_PREFIX) THEN Txt(s)
    ELSE Txt(USR_PREFIX \o s)
\* LogCleaner._clean_single_user_id, from "uid = str(uid).strip()" on
user_id_of_text(s) ==
    IF s \in {UNKNOWN, <<>>, NAN_TEXT} THEN Null
    ELSE IF startswith(s, USR_PREFIX) THEN Txt(s)
    ELSE IF isdigit(s) THEN Txt(USR_PREFIX \o s)
    ELSE Null
\* LogCleaner._clean_single_user_id
clean_single_user_id(uid) ==
    IF isna(uid) THEN Null ELSE user_id_of_text(Strip(str(uid)))
UserMissing(r) == isna(r.user_id)
clean_user_ids(st) ==
    LET before_missing == CountRows(st.cd, UserMissing)
        after == [i \in DOMAIN st.cd |->
                    [st.cd[i] EXCEPT !.user_id = clean_single_user_id(@)]]
        after_missing == CountRows(after, UserMissing)
    IN  [cd |-> after,
         log |-> log_step(st.log, 7, "Standardized user IDs to USR-XXXX format",
                          Len(after), Len(after), after_missing - before_missing)]

SeverityUnknown(r) == r.severity = Str("Unknown")
ModuleUnknown(r) == r.module = Str("unknown-module")
EnvironmentUnknown(r) == r.environment = Str("unknown")
fill_missing_categories(st) ==
    LET after == [i \in DOMAIN st.cd |->
                    [st.cd[i] EXCEPT !.severity = fillna(@, "Unknown"),
                                     !.module = fillna(@, "unknown-module"),
                                     !.environment = fillna(@, "unknown")]]
    IN  [cd |-> after,
         log |-> log_step(st.log, 8, "Filled missing categorical values",
                          Len(after), Len(after),
                          CountRows(after, SeverityUnknown)
                            + CountRows(after, ModuleUnknown)
                            + CountRows(after, EnvironmentUnknown))]

\* (mutant) the duplicates are removed last
full_pipeline_dedup_last(st) ==
    remove_duplicates(
      fill_missing_categories(
        clean_user_ids(
          clean_ip_addresses(
            clean_response_time(
              standardize_timestamps(
                standardize_environment(
                  standardize_severity(st))),
              MIN_VALID, MAX_VALID)))))
\* LogCleaner.run_full_pipeline, after "self.clean_data = self.raw_data.copy()"
full_pipeline(st) ==
    fill_missing_categories(
      clean_user_ids(
        clean_ip_addresses(
          clean_response_time(
            standardize_timestamps(
              standardize_environment(
                standardize_severity(
                  remove_duplicates(st)))),
            MIN_VALID, MAX_VALID))))

(***************************************************************************)
(* The timestamp parsers applied to one value.                             *)
(***************************************************************************)
TextAlphabet == {"1", "0", ".", "-", " ", "n", "a"}
ShortTexts == UNION {[1..n -> TextAlphabet] : n \in 0..MaxTextLen}
TS_ISO == <<"2","0","2","4","-","0","1","-","1","5"," ","1","0",":","3","0",":","0","0">>
TS_US == <<"0","1","/","1","5","/","2","0","2","4"," ","1","0",":","3","0">>
TS_DMY == <<"1","5","-","J","a","n","-","2","0","2","4"," ","1","0",":","3","0",":","0","0">>
TS_EPOCH == <<"1","7","0","5","3","1","2","2","0","0",".","0">>
TS_DATE_ONLY == <<"2","0","2","4","-","0","2","-","2","0">>
TS_ISO_Z == <<"2","0","2","4","-","0","1","-","1","5","T","1","0",":","0","0",":","0","0","Z">>
TS_COMPACT8 == <<"2","0","2","4","0","1","1","5">>
TS_COMPACT14 == <<"2","0","2","4","0","1","1","5","1","0","3","0","0","0">>
TS_PADDED == <<" ","1","7","0","5","3","1","2","2","0","0",".","0"," ">>
TS_BAD_MONTH == <<"2","0","2","4","-","1","3","-","0","1">>
TS_BAD_DAY == <<"0","2","/","3","0","/","2","0","2","4"," ","1","0",":","3","0">>
TS_NEG == <<"-","8","6","4","0","0",".","5">>
TS_GARBAGE == <<"n","o","t"," ","a"," ","d","a","t","e">>
TS_INF == <<"i","n","f">>
TS_LAST == <<"9","2","2","3","3","7","2","0","3","6">>
TS_OVER == <<"9","2","2","3","3","7","2","0","3","7">>
TS_OLD == <<"1","6","0","0","-","0","1","-","0","1">>
SampleTexts ==
    {TS_ISO, TS_US, TS_DMY, TS_EPOCH, TS_DATE_ONLY, TS_ISO_Z, TS_COMPACT8,
     TS_COMPACT14, TS_PADDED, TS_BAD_MONTH, TS_BAD_DAY, TS_NEG, TS_GARBAGE,
     TS_INF, TS_LAST, TS_OVER, TS_OLD,
     INVALID_TIME, INVALID_DATE, N_A, NOT_YET, LAST_WEEK, YESTERDAY}
ParserInputs ==
    {Null, NaT, Num(1705312200), Num(0), Num(-1)}
        \cup {Txt(t) : t \in SampleTexts \cup ShortTexts}

InitParse ==
    /\ cls = "fn"
    /\ NoLogCleaner /\ NoETL /\ NoCalls
    /\ fn = "none" /\ arg \in ParserInputs /\ result = Null
ApplyParseSingleTimestamp ==
    /\ cls = "fn" /\ fn = "none" /\ arg \in ParserInputs
    /\ fn' = "_parse_single_timestamp"
    /\ result' = parse_single_timestamp(arg)
    /\ UNCHANGED <<cls, arg, lcVars, etlVars, callVars>>
ApplyParseDate ==
    /\ cls = "fn" /\ fn = "none" /\ arg \in ParserInputs
    /\ fn' = "_parse_date"
    /\ result' = parse_date(arg)
    /\ UNCHANGED <<cls, arg, lcVars, etlVars, callVars>>
NextParse == ApplyParseSingleTimestamp \/ ApplyParseDate
SpecParse == InitParse /\ [][NextParse]_vars

(***************************************************************************)
(* LogCleaner: datasets.                                                   *)
(***************************************************************************)
IP_PRIVATE == <<"1","9","2",".","1","6","8",".","1",".","1">>
IP_TEN == <<"1","0",".","0",".","1",".","1">>
IP_999 == <<"9","9","9",".","9","9","9",".","9","9","9",".","9","9","9">>
IP_3GROUPS == <<"1",".","2",".","3">>
IP_PADDED == <<" ","1","0",".","0",".","0",".","1"," ">>
IP_4DIGITS == <<"1","2","3","4",".","1",".","1",".","1">>
IP_LETTERS == <<"a",".","b",".","c",".","d">>
UID_USR1234 == <<"U","S","R","-","1","2","3","4">>
UID_5678 == <<"5","6","7","8">>
UID_ABC == <<"a","b","c">>
UID_PADDED == <<" ","4","2"," ">>
UID_12A == <<"1","2","a">>
RT_42 == <<"4","2">>
RT_OVER == <<"1","0","0","0","0",".","5">>

Columns ==
    <<"log_id", "timestamp", "error_type", "severity", "module", "environment",
      "user_id", "response_time_ms", "message", "ip_address">>
LogRow(id, ts, sev, mod, env, uid, rt, ip) ==
    [log_id |-> Num(id), timestamp |-> ts, error_type |-> Str("System Crash"),
     severity |-> sev, module |-> mod, environment |-> env, user_id |-> uid,
     response_time_ms |-> rt, message |-> Str("Error at line 10"),
     ip_address |-> ip]
\* the rows of create_test_data (test_log_cleaner.py), then rows with the other
\* spellings, boundary values and malformed cells
LogRows ==
    << LogRow(1, Txt(TS_ISO), Str("Critical"), Str("auth-service"), Str("production"),
              Txt(UID_USR1234), Flt(FALSE, <<"1", "5", "0">>, <<"5">>), Txt(IP_PRIVATE)),
       LogRow(2, Txt(TS_US), Str("CRITICAL"), Str("api-gateway"), Str("PRODUCTION"),
              Txt(UID_5678), Num(-1), Txt(INVALID_IP)),
       LogRow(3, Txt(TS_DMY), Str("P1"), Null, Str("prod"),
              Txt(UNKNOWN), Num(0), Txt(ZERO_IP)),
       LogRow(4, Txt(TS_EPOCH), Str("high"), Str("user-dashboard"), Str("dev"),
              Null, Num(99999), Null),
       LogRow(5, Txt(INVALID_TIME), Str("med"), Str("auth-service"), Str("DEV"),
              Txt(<<>>), Txt(N_A), Txt(IP_TEN)),
       LogRow(6, Null, Null, Null, Null,
              Txt(NAN_TEXT), Null, Txt(IP_999)),
       LogRow(7, Txt(TS_GARBAGE), Str("URGENT"), Str("unknown-module"), Str("qa"),
              Txt(UID_ABC), Num(10000), Txt(IP_3GROUPS)),
       LogRow(8, Txt(TS_COMPACT14), Str("Unknown"), Str("api-gateway"), Str("unknown"),
              Txt(UID_PADDED), Num(1), Txt(IP_PADDED)),
       LogRow(9, Txt(TS_DATE_ONLY), Str("Low"), Str("auth-service"), Str("staging"),
              Txt(USR_PREFIX), Num(9999), Txt(<<>>)),
       LogRow(10, Txt(TS_BAD_MONTH), Str("P4"), Null, Str("stg"),
              Txt(UID_12A), Num(10001), Txt(IP_4DIGITS)),
       LogRow(11, Txt(TS_PADDED), Str("Medium"), Str("user-dashboard"), Str("development"),
              Num(5678), Txt(RT_42), Txt(IP_LETTERS)),
       LogRow(1, Txt(TS_ISO), Str("High"), Str("auth-service"), Str("production"),
              Txt(UID_USR1234), Txt(RT_OVER), Txt(IP_PRIVATE)) >>
\* every sequence of at most n elements of S
SeqsUpTo(S, n) == UNION {[1..m -> S] : m \in 0..n}
\* the rows the staged-invocation specification draws its datasets from
SmallPool == {LogRows[2], LogRows[3], LogRows[5], LogRows[6]}
RichPool == Range(LogRows)

(***************************************************************************)
(* LogCleaner: the methods as actions.                                     *)
(***************************************************************************)
\* LogCleaner.get_quality_report; a percentage is held in hundredths, NaN for
\* an empty frame
quality_report(rows) ==
    [total_rows |-> Len(rows),
     total_columns |-> Len(Columns),
     missing_values |->
        [c \in Range(Columns) |-> Cardinality({i \in DOMAIN rows : isna(rows[i][c])})],
     missing_percentages |->
        [c \in Range(Columns) |->
            IF Len(rows) = 0 THEN Null
            ELSE Num((2 * 10000 * Cardinality({i \in DOMAIN rows : isna(rows[i][c])})
                        + Len(rows)) \div (2 * Len(rows)))]]
\* the document LogCleaner.export_lineage writes (its date left out)
lineage_document(raw, clean, log) ==
    [project |-> "Log File Cleaner & Classifier",
     cleaning_steps |-> log,
     final_stats |->
        [original_rows |-> Len(raw),
         cleaned_rows |-> Len(clean),
         rows_removed |-> Len(raw) - Len(clean),
         remaining_nulls |->
            Cardinality({<<i, c>> \in (DOMAIN clean) \X Range(Columns) :
                            isna(clean[i][c])})]]

\* a method of LogCleaner is called
LogCleanerMethod(name) ==
    cls = "LogCleaner" /\ Called(name) /\ UNCHANGED etlVars
\* a call that raises changes nothing
CallRaises ==
    /\ raised' = TRUE
    /\ result' = Null
    /\ UNCHANGED lcVars
\* what a stage method does: it raises at once while clean_data is None
StageCall(Stage(_)) ==
    /\ IF clean_data.df
       THEN LET out == Stage([cd |-> clean_data.rows, log |-> cleaning_log])
            IN  /\ clean_data' = DataFrame(out.cd)
                /\ cleaning_log' = out.log
                /\ raised' = FALSE
                /\ result' = Null
                /\ UNCHANGED raw_data
       ELSE CallRaises
default_clean_response_time(st) == clean_response_time(st, MIN_VALID, MAX_VALID)

Call_remove_duplicates ==
    LogCleanerMethod("remove_duplicates") /\ StageCall(remove_duplicates)
Call_standardize_severity ==
    LogCleanerMethod("standardize_severity") /\ StageCall(standardize_severity)
Call_standardize_environment ==
    LogCleanerMethod("standardize_environment") /\ StageCall(standardize_environment)
Call_standardize_timestamps ==
    LogCleanerMethod("standardize_timestamps") /\ StageCall(standardize_timestamps)
Call_clean_response_time ==
    LogCleanerMethod("clean_response_time") /\ StageCall(default_clean_response_time)
Call_clean_ip_addresses ==
    LogCleanerMethod("clean_ip_addresses") /\ StageCall(clean_ip_addresses)
Call_clean_user_ids ==
    LogCleanerMethod("clean_user_ids") /\ StageCall(clean_user_ids)
Call_fill_missing_categories ==
    LogCleanerMethod("fill_missing_categories") /\ StageCall(fill_missing_categories)

\* "self.cleaner.clean_data = self.cleaner.raw_data.copy()", as the tests' setup does
Call_setup ==
    /\ LogCleanerMethod("setup")
    /\ IF raw_data.df
       THEN /\ clean_data' = raw_data
            /\ raised' = FALSE /\ result' = Null
            /\ UNCHANGED <<raw_data, cleaning_log>>
       ELSE CallRaises
\* LogCleaner.run_full_pipeline: raw_data.shape raises on None
Call_run_full_pipeline ==
    /\ LogCleanerMethod("run_full_pipeline")
    /\ IF raw_data.df
       THEN LET out == full_pipeline([cd |-> raw_data.rows, log |-> cleaning_log])
            IN  /\ clean_data' = DataFrame(out.cd)
                /\ cleaning_log' = out.log
                /\ raised' = FALSE /\ result' = Null
                /\ UNCHANGED raw_data
       ELSE CallRaises
\* a variant that records the report in the lineage
Call_get_quality_report_logged ==
    /\ LogCleanerMethod("get_quality_report")
    /\ IF clean_data.df
       THEN /\ result' = quality_report(clean_data.rows)
            /\ raised' = FALSE
            /\ cleaning_log' = log_step(cleaning_log, 9, "Generated quality report",
                                         Len(clean_data.rows), Len(clean_data.rows), 0)
            /\ UNCHANGED <<raw_data, clean_data>>
       ELSE CallRaises
Call_get_quality_report ==
    /\ LogCleanerMethod("get_quality_report")
    /\ IF clean_data.df
       THEN /\ result' = quality_report(clean_data.rows)
            /\ raised' = FALSE
            /\ UNCHANGED lcVars
       ELSE CallRaises
Call_export_lineage ==
    /\ LogCleanerMethod("export_lineage")
    /\ IF raw_data.df /\ clean_data.df
       THEN /\ result' = lineage_document(raw_data.rows, clean_data.rows, cleaning_log)
            /\ raised' = FALSE
            /\ UNCHANGED lcVars
       ELSE CallRaises

LogCleanerStage ==
    \/ Call_remove_duplicates
    \/ Call_standardize_severity
    \/ Call_standardize_environment
    \/ Call_standardize_timestamps
    \/ Call_clean_response_time
    \/ Call_clean_ip_addresses
    \/ Call_clean_user_ids
    \/ Call_fill_missing_categories
LogCleanerCall ==
    \/ LogCleanerStage
    \/ Call_setup
    \/ Call_run_full_pipeline
    \/ Call_get_quality_report
    \/ Call_export_lineage

\* LogCleaner(data=...) or LogCleaner() followed by a load: raw_data is the
\* dataset (None when none was given), clean_data None, cleaning_log empty
InitLogCleaner(pool) ==
    /\ cls = "LogCleaner"
    /\ raw_data \in {None} \cup {DataFrame(rows) : rows \in SeqsUpTo(pool, MaxRows)}
    /\ clean_data = None
    /\ cleaning_log = <<>>
    /\ NoETL /\ Client(MaxCalls) /\ NoFn

\* one stage called on a dataset prepared as the tests' setup prepares it
InitStages ==
    /\ cls = "LogCleaner"
    /\ raw_data \in {DataFrame(rows) : rows \in SeqsUpTo(RichPool, MaxRows)}
    /\ clean_data = raw_data
    /\ cleaning_log = <<>>
    /\ NoETL /\ Client(1) /\ NoFn
NextStages == LogCleanerStage
SpecStages == InitStages /\ [][NextStages]_vars

\* stages and reports in any order on a dataset prepared as the tests' setup
\* prepares it
InitReport ==
    /\ cls = "LogCleaner"
    /\ raw_data \in {DataFrame(rows) : rows \in SeqsUpTo(SmallPool, MaxRows)}
    /\ clean_data = raw_data
    /\ cleaning_log = <<>>
    /\ NoETL /\ Client(MaxCalls) /\ NoFn
NextReport ==
    \/ LogCleanerStage
    \/ Call_get_quality_report
SpecReport == InitReport /\ [][NextReport]_vars

(***************************************************************************)
(* class BugReportETL                                                      *)
(***************************************************************************)
PRIORITY_MAP ==
    {<<"Critical", "Critical">>, <<"CRITICAL", "Critical">>,
     <<"P0", "Critical">>, <<"Blocker", "Critical">>,
     <<"Very High", "Critical">>, <<"very high", "Critical">>,
     <<"V. High", "Critical">>, <<"High", "High">>, <<"HIGH", "High">>,
     <<"P1", "High">>, <<"Major", "High">>, <<"high", "High">>,
     <<"Hi", "High">>, <<"Medium", "Medium">>, <<"MEDIUM", "Medium">>,
     <<"P2", "Medium">>, <<"Normal", "Medium">>, <<"medium", "Medium">>,
     <<"Med", "Medium">>, <<"med", "Medium">>, <<"Low", "Low">>,
     <<"LOW", "Low">>, <<"P3", "Low">>, <<"Minor", "Low">>,
     <<"Trivial", "Low">>, <<"low", "Low">>, <<"Lo", "Low">>,
     <<"Not Important", "Low">>, <<"N/A", "Low">>}
STATUS_MAP ==
    {<<"Open", "Open">>, <<"OPEN", "Open">>, <<"New", "Open">>,
     <<"TODO", "Open">>, <<"open", "Open">>, <<"Reopened", "Open">>,
     <<"REOPENED", "Open">>, <<"Re-opened", "Open">>,
     <<"In Progress", "In Progress">>, <<"IN_PROGRESS", "In Progress">>,
     <<"InProgress", "In Progress">>, <<"Working", "In Progress">>,
     <<"Still working on it", "In Progress">>,
     <<"need more info", "In Progress">>,
     <<"waiting for deploy", "In Progress">>, <<"Resolved", "Resolved">>,
     <<"RESOLVED", "Resolved">>, <<"Fixed", "Resolved">>,
     <<"Done", "Resolved">>, <<"DONE", "Resolved">>,
     <<"Fixed by John on Monday", "Resolved">>, <<"Closed", "Closed">>,
     <<"CLOSED", "Closed">>, <<"Verified", "Closed">>,
     <<"Complete", "Closed">>, <<"closed", "Closed">>,
     <<"closed - duplicate", "Closed">>, <<"wont fix", "Closed">>,
     <<"Cant reproduce", "Closed">>}
COMPONENT_MAP ==
    {<<"auth-service", "Authentication">>,
     <<"Authentication", "Authentication">>, <<"AUTH", "Authentication">>,
     <<"Auth", "Authentication">>, <<"Login", "Authentication">>,
     <<"payment-gateway", "Payment">>, <<"Payment", "Payment">>,
     <<"PAYMENT", "Payment">>, <<"Payments", "Payment">>,
     <<"user-dashboard", "Dashboard">>, <<"Dashboard", "Dashboard">>,
     <<"UI", "Dashboard">>, <<"api-gateway", "API">>, <<"API", "API">>,
     <<"Backend", "API">>, <<"database", "Database">>,
     <<"Database", "Database">>, <<"DB", "Database">>,
     <<"notification-service", "Notifications">>,
     <<"Notifications", "Notifications">>, <<"EMAIL", "Notifications">>,
     <<"Reports", "Reports">>}
\* (mutant) "Testing" is reached from "QA" alone
SDLC_MAP_QA_only ==
    {<<"Requirements", "Requirements">>, <<"requirements", "Requirements">>,
     <<"Design", "Design">>, <<"DESIGN", "Design">>,
     <<"Development", "Development">>, <<"Dev", "Development">>,
     <<"QA", "Testing">>,
     <<"Deployment", "Deployment">>, <<"Maintenance", "Maintenance">>}
SDLC_MAP ==
    {<<"Requirements", "Requirements">>, <<"requirements", "Requirements">>,
     <<"Design", "Design">>, <<"DESIGN", "Design">>,
     <<"Development", "Development">>, <<"Dev", "Development">>,
     <<"Testing", "Testing">>, <<"QA", "Testing">>,
     <<"Deployment", "Deployment">>, <<"Maintenance", "Maintenance">>}
\* BugReportETL.ENVIRONMENT_MAP
ETL_ENVIRONMENT_MAP ==
    {<<"Production", "Production">>, <<"PROD", "Production">>,
     <<"production", "Production">>, <<"prod", "Production">>,
     <<"Staging", "Staging">>, <<"STAGE", "Staging">>,
     <<"staging", "Staging">>, <<"stg", "Staging">>,
     <<"Development", "Development">>, <<"DEV", "Development">>,
     <<"development", "Development">>, <<"dev", "Development">>,
     <<"QA", "Testing">>, <<"Testing", "Testing">>, <<"UAT", "Testing">>}
\* the map of GitHub's state in _transform_github
STATE_MAP ==
    {<<"open", "Open">>, <<"closed", "Closed">>, <<"OPEN", "Open">>,
     <<"CLOSED", "Closed">>}
\* browser_map and os_map of clean_browsers
BROWSER_MAP ==
    {<<"Chrome", "Chrome">>, <<"chrome", "Chrome">>, <<"Firefox", "Firefox">>,
     <<"FIREFOX", "Firefox">>, <<"Safari", "Safari">>, <<"Edge", "Edge">>,
     <<"IE", "Internet Explorer">>}
OS_MAP ==
    {<<"Windows 10", "Windows">>, <<"Win10", "Windows">>, <<"macOS", "macOS">>,
     <<"Mac", "macOS">>, <<"Linux", "Linux">>, <<"ubuntu", "Linux">>,
     <<"iOS", "iOS">>, <<"Android", "Android">>}

\* BugReportETL._log_step: one entry appended.  details holds the numbers the
\* text of the entry is formatted with; the reason (a fixed text) and the
\* wall-clock timestamp are left out.
etl_log_step(log, step, description, details) ==
    Append(log, [step |-> step, description |-> description, details |-> details])

\* "w in text" for some w of words
any_in(text, words) == \E w \in words : contains(text, w)

\* BugReportETL._transform_jira: the 15 columns renamed, source = "JIRA"
transform_jira(rows) ==
    [i \in DOMAIN rows |->
        [source |-> Str("JIRA"), ticket_id |-> rows[i].ticket_id,
         title |-> rows[i].title, description |-> rows[i].description,
         priority |-> rows[i].priority, status |-> rows[i].status,
         component |-> rows[i].component, reporter |-> rows[i].reporter,
         assignee |-> rows[i].assignee, environment |-> rows[i].environment,
         sdlc_phase |-> rows[i].sdlc_phase, created_date |-> rows[i].created_date,
         resolved_date |-> rows[i].resolved_date,
         time_spent_minutes |-> rows[i].time_spent_minutes,
         browser |-> rows[i].browser, os |-> rows[i].os]]

W_CRITICAL == <<"c", "r", "i", "t", "i", "c", "a", "l">>
W_HIGH == <<"h", "i", "g", "h">>
W_LOW == <<"l", "o", "w">>
W_BUG == <<"b", "u", "g">>
\* "for label in labels": the first label holding one of the three words
\* decides; after the loop a label equal to "bug" gives Medium
RECURSIVE priority_of_labels(_, _)
priority_of_labels(labels, i) ==
    IF i > Len(labels)
    THEN (IF \E j \in DOMAIN labels : lower(labels[j]) = W_BUG
          THEN Str("Medium") ELSE Null)
    ELSE IF contains(lower(labels[i]), W_CRITICAL) THEN Str("Critical")
    ELSE IF contains(lower(labels[i]), W_HIGH) THEN Str("High")
    ELSE IF contains(lower(labels[i]), W_LOW) THEN Str("Low")
    ELSE priority_of_labels(labels, i + 1)
\* _transform_github.extract_priority_from_labels
extract_priority_from_labels(labels) ==
    IF labels.k # "list" THEN Null ELSE priority_of_labels(labels.items, 1)

\* the rules of extract_component_from_title on the lower-cased title
component_of(title_lower) ==
    IF any_in(title_lower, {<<"l", "o", "g", "i", "n">>, <<"a", "u", "t", "h">>}) THEN Str("Authentication")
    ELSE IF any_in(title_lower, {<<"p", "a", "y", "m", "e", "n", "t">>}) THEN Str("Payment")
    ELSE IF any_in(title_lower, {<<"d", "a", "s", "h", "b", "o", "a", "r", "d">>, <<"u", "i">>, <<"b", "u", "t", "t", "o", "n">>})
    THEN Str("Dashboard")
    ELSE IF any_in(title_lower, {<<"a", "p", "i">>, <<"b", "a", "c", "k", "e", "n", "d">>}) THEN Str("API")
    ELSE IF any_in(title_lower, {<<"d", "a", "t", "a", "b", "a", "s", "e">>, <<"d", "b">>}) THEN Str("Database")
    ELSE IF any_in(title_lower, {<<"e", "m", "a", "i", "l">>, <<"n", "o", "t", "i", "f", "i", "c", "a", "t", "i", "o", "n">>})
    THEN Str("Notifications")
    ELSE IF any_in(title_lower, {<<"s", "e", "c", "u", "r", "i", "t", "y">>, <<"x", "s", "s">>}) THEN Str("Security")
    ELSE IF any_in(title_lower, {<<"p", "e", "r", "f", "o", "r", "m", "a", "n", "c", "e">>, <<"s", "l", "o", "w">>, <<"t", "i", "m", "e", "o", "u", "t">>})
    THEN Str("Performance")
    ELSE Null
\* _transform_github.extract_component_from_title
extract_component_from_title(title) == component_of(lower(str(title)))

GH_PREFIX == <<"G", "H", "-">>
XL_PREFIX == <<"X", "L", "-">>
\* BugReportETL._transform_github
transform_github(rows) ==
    [i \in DOMAIN rows |->
        [source |-> Str("GitHub"),
         ticket_id |-> Txt(GH_PREFIX \o str(rows[i].issue_number)),
         title |-> rows[i].title, description |-> rows[i].body,
         priority |-> extract_priority_from_labels(rows[i].labels),
         status |-> map_dict(STATE_MAP, rows[i].state),
         component |-> extract_component_from_title(rows[i].title),
         reporter |-> rows[i].user, assignee |-> rows[i].assignee,
         environment |-> Null, sdlc_phase |-> Null,
         created_date |-> rows[i].created_at, resolved_date |-> rows[i].closed_at,
         time_spent_minutes |-> Null, browser |-> Null, os |-> Null]]
\* BugReportETL._transform_excel
transform_excel(rows) ==
    [i \in DOMAIN rows |->
        [source |-> Str("Excel"),
         ticket_id |-> Txt(XL_PREFIX \o str(rows[i].bug_no)),
         title |-> rows[i].bug_title, description |-> rows[i].notes,
         priority |-> rows[i].severity, status |-> rows[i].status_notes,
         component |-> rows[i].module, reporter |-> rows[i].found_by,
         assignee |-> Null, environment |-> Null, sdlc_phase |-> Null,
         created_date |-> rows[i].date_found, resolved_date |-> Null,
         time_spent_minutes |-> Null, browser |-> Null, os |-> Null]]

\* A stage of BugReportETL is an operator on the instance
\*   self = [jira, github, excel, unified (None or a frame), log, raised]
\* raised tells that the call did not return.
Raises(self) == [self EXCEPT !.raised = TRUE]
\* (mutant) the stage logs nothing
Cleaned_unlogged(self, rows, step, description, details) ==
    [self EXCEPT !.unified = DataFrame(rows)]
\* "self.unified_data[...] = ..." and the stage's _log_step
Cleaned(self, rows, step, description, details) ==
    [self EXCEPT !.unified = DataFrame(rows),
                 !.log = etl_log_step(self.log, step, description, details)]
\* the rows with column col replaced by F of its cells (Series.apply, Series.map)
apply(rows, col, F(_)) ==
    [i \in DOMAIN rows |-> [rows[i] EXCEPT ![col] = F(@)]]
\* the number of rows whose cell in col is missing / is not
count_isna(rows, col) == Cardinality({i \in DOMAIN rows : isna(rows[i][col])})
count_notna(rows, col) == Cardinality({i \in DOMAIN rows : notna(rows[i][col])})

\* the columns of the frame each _transform_* builds, in the order of its dict
TARGET_FIELDS ==
    [JIRA |->
        <<"source", "ticket_id", "title", "description", "priority",
          "status", "component", "reporter", "assignee", "environment",
          "sdlc_phase", "created_date", "resolved_date",
          "time_spent_minutes", "browser", "os">>,
     GitHub |->
        <<"source", "ticket_id", "title", "description", "priority",
          "status", "component", "reporter", "assignee", "environment",
          "sdlc_phase", "created_date", "resolved_date",
          "time_spent_minutes", "browser", "os">>,
     Excel |->
        <<"source", "ticket_id", "title", "description", "priority",
          "status", "component", "reporter", "assignee", "environment",
          "sdlc_phase", "created_date", "resolved_date",
          "time_spent_minutes", "browser", "os">>]
\* the columns each _transform_* reads from its source (Excel's headers are
\* spelled bug_no, bug_title, severity, status_notes, found_by, date_found,
\* module, notes)
SOURCE_FIELDS ==
    [JIRA |->
        {"ticket_id", "title", "description", "priority", "status",
         "component", "reporter", "assignee", "environment", "sdlc_phase",
         "created_date", "resolved_date", "time_spent_minutes", "browser",
         "os"},
     GitHub |->
        {"issue_number", "title", "body", "labels", "state", "user",
         "assignee", "created_at", "closed_at"},
     Excel |->
        {"bug_no", "bug_title", "notes", "severity", "status_notes",
         "module", "found_by", "date_found"}]
\* df[column] raises KeyError when the frame has no such column, and None has
\* no copy(): the source can be read when it is a frame with the columns
readable(frame, fields) ==
    frame.df /\ \A i \in DOMAIN frame.rows : fields \subseteq DOMAIN frame.rows[i]

\* a variant that puts the Excel rows in front of the others
unify_excel_first(self, j, g) ==
    IF ~readable(self.excel, SOURCE_FIELDS.Excel) THEN Raises(self)
    ELSE Cleaned([self EXCEPT !.log = etl_log_step(self.log, 3, "Transformed Excel data",
                                                   <<Len(self.excel.rows)>>)],
                 transform_excel(self.excel.rows) \o j \o g,
                 4, "Combined all sources",
                 <<Len(j) + Len(g) + Len(self.excel.rows)>>)
\* a variant that leaves out an Excel source it cannot read
unify_excel_lenient(self, j, g) ==
    IF ~readable(self.excel, SOURCE_FIELDS.Excel)
    THEN Cleaned([self EXCEPT !.log = etl_log_step(self.log, 3, "Transformed Excel data", <<0>>)],
                 j \o g, 4, "Combined all sources", <<Len(j) + Len(g)>>)
    ELSE Cleaned([self EXCEPT !.log = etl_log_step(self.log, 3, "Transformed Excel data",
                                                   <<Len(self.excel.rows)>>)],
                 j \o g \o transform_excel(self.excel.rows),
                 4, "Combined all sources",
                 <<Len(j) + Len(g) + Len(self.excel.rows)>>)
\* BugReportETL.transform_and_unify: a source that cannot be read raises where
\* it is read, after the entries of the sources before it were logged
unify_excel(self, j, g) ==
    IF ~readable(self.excel, SOURCE_FIELDS.Excel) THEN Raises(self)
    ELSE Cleaned([self EXCEPT !.log = etl_log_step(self.log, 3, "Transformed Excel data",
                                                   <<Len(self.excel.rows)>>)],
                 j \o g \o transform_excel(self.excel.rows),
                 4, "Combined all sources",
                 <<Len(j) + Len(g) + Len(self.excel.rows)>>)
unify_github(self, j) ==
    IF ~readable(self.github, SOURCE_FIELDS.GitHub) THEN Raises(self)
    ELSE unify_excel([self EXCEPT !.log = etl_log_step(self.log, 2, "Transformed GitHub data",
                                                       <<Len(self.github.rows)>>)],
                     j, transform_github(self.github.rows))
transform_and_unify(self) ==
    IF ~readable(self.jira, SOURCE_FIELDS.JIRA) THEN Raises(self)
    ELSE unify_github([self EXCEPT !.log = etl_log_step(self.log, 1, "Transformed JIRA data",
                                                        <<Len(self.jira.rows)>>)],
                      transform_jira(self.jira.rows))

\* subset=["ticket_id", "title", "source"]
DedupKey(r) == <<r.ticket_id, r.title, r.source>>
Deduplicated(self, rows) ==
    Cleaned(self, rows, 5, "Removed duplicates", <<Len(self.unified.rows) - Len(rows)>>)
\* BugReportETL.clean_duplicates (len(None) raises)
clean_duplicates(self) ==
    IF ~self.unified.df THEN Raises(self)
    ELSE Deduplicated(self, drop_duplicates(self.unified.rows, DedupKey))

priority_of(v) == map_dict(PRIORITY_MAP, v)
status_of(v) == map_dict(STATUS_MAP, v)
component_name_of(v) == map_dict(COMPONENT_MAP, v)
environment_of(v) == map_dict(ETL_ENVIRONMENT_MAP, v)
sdlc_phase_of(v) == map_dict(SDLC_MAP, v)
fill_unknown(v) == fillna(v, "Unknown")
PriorityMapped(self, mapped) ==
    Cleaned(self, apply(mapped, "priority", fill_unknown), 6,
            "Standardized priority levels",
            <<count_isna(mapped, "priority") - count_isna(self.unified.rows, "priority")>>)
\* BugReportETL.clean_priority (None["priority"] raises)
clean_priority(self) ==
    IF ~self.unified.df THEN Raises(self)
    ELSE PriorityMapped(self, apply(self.unified.rows, "priority", priority_of))
\* BugReportETL.clean_status
clean_status(self) ==
    IF ~self.unified.df THEN Raises(self)
    ELSE Cleaned(self, apply(apply(self.unified.rows, "status", status_of),
                             "status", fill_unknown),
                 7, "Standardized status values", <<>>)
\* BugReportETL.clean_component
clean_component(self) ==
    IF ~self.unified.df THEN Raises(self)
    ELSE Cleaned(self, apply(apply(self.unified.rows, "component", component_name_of),
                             "component", fill_unknown),
                 8, "Standardized component names", <<>>)
\* BugReportETL.clean_environment
clean_environment(self) ==
    IF ~self.unified.df THEN Raises(self)
    ELSE Cleaned(self, apply(apply(self.unified.rows, "environment", environment_of),
                             "environment", fill_unknown),
                 9, "Standardized environment names", <<>>)
\* BugReportETL.clean_sdlc_phase
clean_sdlc_phase(self) ==
    IF ~self.unified.df THEN Raises(self)
    ELSE Cleaned(self, apply(apply(self.unified.rows, "sdlc_phase", sdlc_phase_of),
                             "sdlc_phase", fill_unknown),
                 10, "Standardized SDLC phases", <<>>)

DatesParsed(self, rows) ==
    Cleaned(self, rows, 11, "Standardized date formats",
            <<count_notna(rows, "created_date"), count_notna(rows, "resolved_date")>>)
\* BugReportETL.clean_dates
clean_dates(self) ==
    IF ~self.unified.df THEN Raises(self)
    ELSE DatesParsed(self, apply(apply(self.unified.rows, "created_date", parse_date),
                                 "resolved_date", parse_date))

NONE_TEXT == <<"N", "o", "n", "e">>
W_HOUR == <<"h", "o", "u", "r">>
W_DAY == <<"d", "a", "y">>
\* val_str.split()[0] of a stripped, non-empty text
RECURSIVE first_word(_)
first_word(t) ==
    IF Len(t) = 0 \/ IsSpace(t[1]) THEN <<>> ELSE <<t[1]>> \o first_word(Tail(t))
\* a number of thousandths as a cell
FromThousandths(neg, m) ==
    IF m % 1000 = 0 THEN Num(IF neg THEN -(m \div 1000) ELSE m \div 1000)
    ELSE Flt(neg, DigitsOfNat(m \div 1000),
             StripTrailingZeros(PadLeft(DigitsOfNat(m % 1000), 3)))
\* float(word) * factor, NaN when float refuses the word ("except Exception").
\* Exact for a whole part of at most 3 digits and a fraction of at most 3.
times(f, factor) ==
    IF ~f.ok \/ f.kind = "nan" THEN Null
    ELSE IF f.kind = "inf" THEN Inf(f.neg)
    ELSE FromThousandths(f.neg, NatOf(f.ip \o PadRight(f.fp, 3)) * factor)
\* "num = float(val_str); if num <= 0: return np.nan; return num"
positive(f) ==
    IF ~f.ok \/ f.kind = "nan" THEN Null
    ELSE IF f.kind = "inf" THEN (IF f.neg THEN Null ELSE Inf(FALSE))
    ELSE IF f.neg \/ (f.ip = <<"0">> /\ f.fp = <<>>) THEN Null
    ELSE Number(f)
\* clean_time_spent.parse_time, from "val_str = str(val).strip()" on
time_of_text(val_str) ==
    IF val_str \in {N_A, <<>>, NONE_TEXT} THEN Null
    ELSE IF contains(val_str, W_HOUR) THEN times(float(first_word(val_str)), 60)
    ELSE IF contains(val_str, W_DAY) THEN times(float(first_word(val_str)), 480)
    ELSE positive(float(val_str))
\* clean_time_spent.parse_time
parse_time(val) == IF isna(val) THEN Null ELSE time_of_text(Strip(str(val)))
\* BugReportETL.clean_time_spent
clean_time_spent(self) ==
    IF ~self.unified.df THEN Raises(self)
    ELSE Cleaned(self, apply(self.unified.rows, "time_spent_minutes", parse_time),
                 12, "Cleaned time spent values", <<>>)

UNASSIGNED == <<"u", "n", "a", "s", "s", "i", "g", "n", "e", "d">>
REPORTER_UNKNOWN == <<"U", "n", "k", "n", "o", "w", "n">>
\* clean_reporters.clean_reporter, from "val = str(val).strip()" on
reporter_of_text(val) ==
    IF val \in {UNKNOWN, <<>>, NONE_TEXT, UNASSIGNED} THEN Txt(REPORTER_UNKNOWN)
    ELSE Txt(val)
\* clean_reporters.clean_reporter
clean_reporter(val) ==
    IF isna(val) THEN Txt(REPORTER_UNKNOWN) ELSE reporter_of_text(Strip(str(val)))
\* BugReportETL.clean_reporters
clean_reporters(self) ==
    IF ~self.unified.df THEN Raises(self)
    ELSE Cleaned(self, apply(apply(self.unified.rows, "reporter", clean_reporter),
                             "assignee", clean_reporter),
                 13, "Cleaned reporter and assignee fields", <<>>)

browser_of(v) == map_dict(BROWSER_MAP, v)
os_of(v) == map_dict(OS_MAP, v)
\* BugReportETL.clean_browsers
clean_browsers(self) ==
    IF ~self.unified.df THEN Raises(self)
    ELSE Cleaned(self, apply(apply(self.unified.rows, "browser", browser_of),
                             "os", os_of),
                 14, "Standardized browser and OS names", <<>>)

\* pd.to_datetime(column, errors="coerce") on one cell: an instant stays, a
\* text is read by the grammar (not-a-time when it refuses), an integer is a
\* count of nanoseconds, a missing cell not-a-time
OrNaT(g) == IF g.ok THEN g.v ELSE NaT
coerce_datetime(v) ==
    IF v.k = "ts" THEN v
    ELSE IF v.k = "txt" THEN OrNaT(to_datetime(v.t))
    ELSE IF v.k = "num"
    THEN Instant((v.n \div 1000000000) \div SecsPerDay,
                 (v.n \div 1000000000) % SecsPerDay,
                 StripTrailingZeros(PadLeft(DigitsOfNat(v.n % 1000000000), 9)), "naive")
    ELSE NaT
\* a column that holds both zone-aware and naive instants
mixed_zones(rows, col) ==
    /\ \E i \in DOMAIN rows : rows[i][col].k = "ts" /\ rows[i][col].tz = "UTC"
    /\ \E i \in DOMAIN rows : rows[i][col].k = "ts" /\ rows[i][col].tz = "naive"
\* the nanoseconds of the fraction of an instant
Nanos(v) == NatOf(PadRight(v.frac, 9))
\* (resolved - created).dt.days: the whole days of the difference, rounded down
days_between(created, resolved) ==
    IF resolved.secs < created.secs
       \/ (resolved.secs = created.secs /\ Nanos(resolved) < Nanos(created))
    THEN resolved.days - created.days - 1
    ELSE resolved.days - created.days
\* (mutant) a negative difference is kept
resolution_days_signed(r) ==
    IF isna(r.created_date) \/ isna(r.resolved_date) THEN Null
    ELSE Num(days_between(r.created_date, r.resolved_date))
\* resolution_days of one row: NaN unless both dates are instants, and NaN
\* when the difference is negative
resolution_days(r) ==
    IF isna(r.created_date) \/ isna(r.resolved_date) THEN Null
    ELSE IF days_between(r.created_date, r.resolved_date) < 0 THEN Null
    ELSE Num(days_between(r.created_date, r.resolved_date))
\* (mutant) the Performance rule is tried first
bug_type_performance_first(title_lower) ==
    IF any_in(title_lower,
              {<<"s", "l", "o", "w">>, <<"t", "i", "m", "e", "o", "u", "t">>,
           <<"p", "e", "r", "f", "o", "r", "m", "a", "n", "c", "e">>,
           <<"m", "e", "m", "o", "r", "y", " ", "l", "e", "a", "k">>})
    THEN Str("Performance")
    ELSE IF any_in(title_lower,
              {<<"c", "r", "a", "s", "h">>,
           <<"e", "x", "c", "e", "p", "t", "i", "o", "n">>,
           <<"n", "u", "l", "l", " ", "p", "o", "i", "n", "t", "e", "r">>})
    THEN Str("Crash/Fatal")
    ELSE IF any_in(title_lower,
              {<<"u", "i">>, <<"c", "s", "s">>, <<"b", "u", "t", "t", "o", "n">>,
           <<"o", "v", "e", "r", "l", "a", "p", "p", "i", "n", "g">>,
           <<"a", "l", "i", "g", "n", "m", "e", "n", "t">>,
           <<"l", "o", "o", "k", "s", " ", "w", "e", "i", "r", "d">>})
    THEN Str("UI/Visual")
    ELSE IF any_in(title_lower,
              {<<"s", "e", "c", "u", "r", "i", "t", "y">>, <<"x", "s", "s">>,
           <<"v", "u", "l", "n", "e", "r", "a", "b", "i", "l", "i", "t", "y">>,
           <<"p", "e", "r", "m", "i", "s", "s", "i", "o", "n">>})
    THEN Str("Security")
    ELSE IF any_in(title_lower,
              {<<"a", "p", "i">>, <<"5", "0", "0">>, <<"4", "0", "4">>,
           <<"g", "a", "t", "e", "w", "a", "y">>})
    THEN Str("API/Integration")
    ELSE IF any_in(title_lower,
              {<<"d", "a", "t", "a">>, <<"w", "r", "o", "n", "g">>,
           <<"c", "a", "l", "c", "u", "l", "a", "t", "i", "o", "n">>,
           <<"s", "e", "a", "r", "c", "h", " ", "r", "e", "s", "u", "l", "t", "s">>})
    THEN Str("Data Integrity")
    ELSE Str("Functional")
\* the rules of classify_bug_type on the lower-cased title
bug_type_of(title_lower) ==
    IF any_in(title_lower, {<<"c", "r", "a", "s", "h">>, <<"e", "x", "c", "e", "p", "t", "i", "o", "n">>, <<"n", "u", "l", "l", " ", "p", "o", "i", "n", "t", "e", "r">>})
    THEN Str("Crash/Fatal")
    ELSE IF any_in(title_lower, {<<"u", "i">>, <<"c", "s", "s">>, <<"b", "u", "t", "t", "o", "n">>, <<"o", "v", "e", "r", "l", "a", "p", "p", "i", "n", "g">>,
                                 <<"a", "l", "i", "g", "n", "m", "e", "n", "t">>, <<"l", "o", "o", "k", "s", " ", "w", "e", "i", "r", "d">>})
    THEN Str("UI/Visual")
    ELSE IF any_in(title_lower, {<<"s", "l", "o", "w">>, <<"t", "i", "m", "e", "o", "u", "t">>, <<"p", "e", "r", "f", "o", "r", "m", "a", "n", "c", "e">>,
                                 <<"m", "e", "m", "o", "r", "y", " ", "l", "e", "a", "k">>})
    THEN Str("Performance")
    ELSE IF any_in(title_lower, {<<"s", "e", "c", "u", "r", "i", "t", "y">>, <<"x", "s", "s">>, <<"v", "u", "l", "n", "e", "r", "a", "b", "i", "l", "i", "t", "y">>,
                                 <<"p", "e", "r", "m", "i", "s", "s", "i", "o", "n">>})
    THEN Str("Security")
    ELSE IF any_in(title_lower, {<<"a", "p", "i">>, <<"5", "0", "0">>, <<"4", "0", "4">>, <<"g", "a", "t", "e", "w", "a", "y">>})
    THEN Str("API/Integration")
    ELSE IF any_in(title_lower, {<<"d", "a", "t", "a">>, <<"w", "r", "o", "n", "g">>, <<"c", "a", "l", "c", "u", "l", "a", "t", "i", "o", "n">>,
                                 <<"s", "e", "a", "r", "c", "h", " ", "r", "e", "s", "u", "l", "t", "s">>})
    THEN Str("Data Integrity")
    ELSE Str("Functional")
\* add_computed_fields.classify_bug_type
classify_bug_type(title) == bug_type_of(lower(str(title)))
\* a row with the columns in cells set (added when the row has none of the name)
with_columns(r, cells) ==
    [c \in (DOMAIN r) \cup (DOMAIN cells) |-> IF c \in DOMAIN cells THEN cells[c] ELSE r[c]]
computed(r) ==
    with_columns(r, [resolution_days |-> resolution_days(r),
                     bug_type |-> classify_bug_type(r.title)])
Computed(self, dated) ==
    Cleaned(self, [i \in DOMAIN dated |-> computed(dated[i])],
            15, "Added computed fields", <<>>)
Coerced(self, dated, strict) ==
    IF strict /\ (mixed_zones(dated, "created_date") \/ mixed_zones(dated, "resolved_date"))
    THEN Raises(self)
    ELSE Computed(self, dated)
\* BugReportETL.add_computed_fields.  pd.to_datetime of a column that mixes
\* zone-aware and naive instants raises in some pandas releases and not in
\* others: strict tells which.
add_computed_fields(self, strict) ==
    IF ~self.unified.df THEN Raises(self)
    ELSE Coerced(self,
                 apply(apply(self.unified.rows, "created_date", coerce_datetime),
                       "resolved_date", coerce_datetime),
                 strict)

\* the next call of run_full_pipeline, unless an earlier one raised
then(self, Stage(_)) == IF self.raised THEN self ELSE Stage(self)
\* BugReportETL.run_full_pipeline
etl_full_pipeline(self, strict) ==
    LET last(e) == add_computed_fields(e, strict)
    IN  then(then(then(then(then(then(then(then(then(then(then(
          transform_and_unify(self),
          clean_duplicates), clean_priority), clean_status), clean_component),
          clean_environment), clean_sdlc_phase), clean_dates), clean_time_spent),
          clean_reporters), clean_browsers), last)
\* the document BugReportETL.export_lineage writes (its date left out)
etl_lineage_document(self) ==
    [project |-> "Bug Report ETL Pipeline",
     sources |-> [jira |-> Len(self.jira.rows), github |-> Len(self.github.rows),
                  excel |-> Len(self.excel.rows)],
     unified_records |-> Len(self.unified.rows),
     cleaning_steps |-> self.log]

(***************************************************************************)
(* BugReportETL: datasets and calls.                                       *)
(***************************************************************************)
JiraRow(id, title, pri, status, comp, rep, asg, env, phase, created, resolved, spent,
        browser, os) ==
    [ticket_id |-> Txt(id), title |-> Txt(title), description |-> Null,
     priority |-> pri, status |-> status, component |-> comp, reporter |-> rep,
     assignee |-> asg, environment |-> env, sdlc_phase |-> phase,
     created_date |-> created, resolved_date |-> resolved,
     time_spent_minutes |-> spent, browser |-> browser, os |-> os]
GithubRow(no, title, labels, state, user, asg, created, closed) ==
    [issue_number |-> Num(no), title |-> Txt(title), body |-> Null, labels |-> labels,
     state |-> state, user |-> user, assignee |-> asg, created_at |-> created,
     closed_at |-> closed]
\* "Bug #", "Bug Title", "Severity", "Status Notes", "Found By", "Date Found",
\* "Module", "Notes"
ExcelRow(no, title, sev, status, by, found, mod) ==
    [bug_no |-> Num(no), bug_title |-> Txt(title), severity |-> sev,
     status_notes |-> status, found_by |-> by, date_found |-> found, module |-> mod,
     notes |-> Null]
TS_JIRA_CREATED == <<"2", "0", "2", "4", "-", "0", "1", "-", "1", "5", " ", "1", "0", ":", "0", "0", ":", "0", "0">>
TS_JIRA_RESOLVED == <<"2", "0", "2", "4", "-", "0", "1", "-", "1", "6", " ", "1", "0", ":", "0", "0", ":", "0", "0">>
TS_JIRA_US == <<"0", "1", "/", "2", "0", "/", "2", "0", "2", "4", " ", "1", "4", ":", "3", "0">>
TS_GH_CREATED == <<"2", "0", "2", "4", "-", "0", "2", "-", "2", "0", "T", "1", "4", ":", "0", "0", ":", "0", "0", "Z">>
TS_GH_CLOSED == <<"2", "0", "2", "4", "-", "0", "2", "-", "2", "5", "T", "1", "4", ":", "0", "0", ":", "0", "0", "Z">>
TS_XL_FOUND == <<"2", "0", "2", "4", "-", "0", "2", "-", "2", "0">>
\* rows of create_test_data and setup (test_bug_etl.py)
JiraRows ==
    << JiraRow(<<"J", "I", "R", "A", "-", "1">>, <<"L", "o", "g", "i", "n", " ", "c", "r", "a", "s", "h">>, Str("CRITICAL"), Str("OPEN"), Str("AUTH"),
               Txt(<<"j", "o", "h", "n", "@", "t", "e", "s", "t", ".", "c", "o", "m">>), Txt(<<"j", "a", "n", "e", "@", "t", "e", "s", "t", ".", "c", "o", "m">>), Str("PROD"),
               Str("Testing"), Txt(TS_JIRA_CREATED), Txt(TS_JIRA_RESOLVED), Num(120),
               Str("chrome"), Str("Win10")),
       JiraRow(<<"J", "I", "R", "A", "-", "2">>, <<"U", "I", " ", "b", "r", "o", "k", "e", "n">>, Str("med"), Str("IN_PROGRESS"), Str("UI"),
               Txt(UNKNOWN), Null, Str("dev"), Str("Dev"), Txt(TS_JIRA_US), Txt(N_A),
               Txt(<<"2", " ", "h", "o", "u", "r", "s">>), Str("FIREFOX"), Str("Mac")) >>
\* (the second issue with another title and its dates swapped)
GithubRows ==
    << GithubRow(1, <<"B", "u", "g", ":", " ", "A", "P", "I", " ", "r", "e", "t", "u", "r", "n", "s", " ", "4", "0", "4">>, List(<<W_BUG, W_CRITICAL>>), Str("open"),
                 Txt(<<"d", "e", "v", "1">>), Txt(<<"d", "e", "v", "2">>), Txt(TS_GH_CREATED), Null),
       GithubRow(2, <<"X", "S", "S", " ", "i", "n", " ", "s", "e", "a", "r", "c", "h">>, List(<<W_BUG, <<"l", "o", "w", "-", "p", "r", "i", "o", "r", "i", "t", "y">>>>),
                 Str("closed"), Txt(<<"q", "a", "1">>), Null, Txt(TS_GH_CLOSED),
                 Txt(TS_GH_CREATED)) >>
ExcelRows ==
    << ExcelRow(1, <<"l", "o", "g", "i", "n", " ", "b", "r", "o", "k", "e", "n">>, Str("Very High"), Str("DONE"), Txt(<<"Q", "A", " ", "T", "e", "a", "m">>),
                Txt(TS_XL_FOUND), Str("Login")),
       ExcelRow(2, <<"s", "l", "o", "w", " ", "p", "e", "r", "f", "o", "r", "m", "a", "n", "c", "e">>, Str("Urgent"), Str("Still working on it"),
                Txt(<<"D", "e", "v", "e", "l", "o", "p", "e", "r">>), Txt(LAST_WEEK), Null) >>

\* None, or a frame of rows drawn from pool
Frames(pool, n) == {None} \cup {DataFrame(rows) : rows \in SeqsUpTo(pool, n)}

\* the instance as the stage operators take it, and its assignment back
Self ==
    [jira |-> jira_data, github |-> github_data, excel |-> excel_data,
     unified |-> unified_data, log |-> cleaning_log, raised |-> FALSE]
Becomes(self) ==
    /\ unified_data' = self.unified
    /\ cleaning_log' = self.log
    /\ raised' = self.raised
    /\ result' = Null
    /\ UNCHANGED <<jira_data, github_data, excel_data>>
\* a method of BugReportETL is called
ETLMethod(name) ==
    cls = "BugReportETL" /\ Called(name) /\ UNCHANGED <<raw_data, clean_data>>

Call_transform_and_unify ==
    ETLMethod("transform_and_unify") /\ Becomes(transform_and_unify(Self))
Call_clean_duplicates ==
    ETLMethod("clean_duplicates") /\ Becomes(clean_duplicates(Self))
Call_clean_priority ==
    ETLMethod("clean_priority") /\ Becomes(clean_priority(Self))
Call_clean_status ==
    ETLMethod("clean_status") /\ Becomes(clean_status(Self))
Call_clean_component ==
    ETLMethod("clean_component") /\ Becomes(clean_component(Self))
Call_clean_environment ==
    ETLMethod("clean_environment") /\ Becomes(clean_environment(Self))
Call_clean_sdlc_phase ==
    ETLMethod("clean_sdlc_phase") /\ Becomes(clean_sdlc_phase(Self))
Call_clean_dates ==
    ETLMethod("clean_dates") /\ Becomes(clean_dates(Self))
Call_clean_time_spent ==
    ETLMethod("clean_time_spent") /\ Becomes(clean_time_spent(Self))
Call_clean_reporters ==
    ETLMethod("clean_reporters") /\ Becomes(clean_reporters(Self))
Call_clean_browsers ==
    ETLMethod("clean_browsers") /\ Becomes(clean_browsers(Self))
Call_add_computed_fields ==
    /\ ETLMethod("add_computed_fields")
    /\ \E strict \in BOOLEAN : Becomes(add_computed_fields(Self, strict))
Call_etl_run_full_pipeline ==
    /\ ETLMethod("run_full_pipeline")
    /\ \E strict \in BOOLEAN : Becomes(etl_full_pipeline(Self, strict))
\* BugReportETL.export_lineage: len(None) raises
Call_etl_export_lineage ==
    /\ ETLMethod("export_lineage")
    /\ raised' = ~unified_data.df
    /\ result' = IF unified_data.df THEN etl_lineage_document(Self) ELSE Null
    /\ UNCHANGED <<etlVars, cleaning_log>>

ETLStage ==
    \/ Call_transform_and_unify
    \/ Call_clean_duplicates
    \/ Call_clean_priority
    \/ Call_clean_status
    \/ Call_clean_component
    \/ Call_clean_environment
    \/ Call_clean_sdlc_phase
    \/ Call_clean_dates
    \/ Call_clean_time_spent
    \/ Call_clean_reporters
    \/ Call_clean_browsers
    \/ Call_add_computed_fields
ETLCall ==
    \/ ETLStage
    \/ Call_etl_run_full_pipeline
    \/ Call_etl_export_lineage

\* BugReportETL() followed by the extracts that were made: each source is its
\* frame or None, unified_data None, cleaning_log empty
InitETL ==
    /\ cls = "BugReportETL"
    /\ raw_data = None /\ clean_data = None
    /\ jira_data \in Frames(Range(JiraRows), MaxRows)
    /\ github_data \in Frames(Range(GithubRows), MaxRows)
    /\ excel_data \in Frames(Range(ExcelRows), MaxRows)
    /\ Len(jira_data.rows) + Len(github_data.rows) + Len(excel_data.rows) <= MaxRows
    /\ unified_data = None
    /\ cleaning_log = <<>>
    /\ Client(MaxCalls) /\ NoFn

(***************************************************************************)
(* The staged-invocation surface of both classes.                          *)
(***************************************************************************)
Init == InitLogCleaner(SmallPool) \/ InitETL
Next == LogCleanerCall \/ ETLCall
Spec == Init /\ [][Next]_vars

(***************************************************************************)
(* BugReportETL: unification alone, on sources of every shape.             *)
(***************************************************************************)
\* a row of a source whose frame has no column f
Without(r, f) == [c \in (DOMAIN r) \ {f} |-> r[c]]
\* every source is None, a frame of up to MaxRows rows, or a frame that lacks
\* a column its transformation reads
InitUnify ==
    /\ cls = "BugReportETL"
    /\ raw_data = None /\ clean_data = None
    /\ jira_data \in Frames(Range(JiraRows), MaxRows)
                      \cup {DataFrame(<<Without(JiraRows[1], "priority")>>)}
    /\ github_data \in Frames(Range(GithubRows), MaxRows)
                        \cup {DataFrame(<<Without(GithubRows[1], "labels")>>)}
    /\ excel_data \in Frames(Range(ExcelRows), MaxRows)
                       \cup {DataFrame(<<Without(ExcelRows[1], "module")>>)}
    /\ unified_data = None
    /\ cleaning_log = <<>>
    /\ Client(1)
    /\ NoFn
NextUnify ==
    \/ Call_transform_and_unify
    \/ Call_etl_run_full_pipeline
SpecUnify == InitUnify /\ [][NextUnify]_vars

(***************************************************************************)
(* The class-level value maps applied to one value.                        *)
(***************************************************************************)
ClassMaps ==
    "LogCleaner.SEVERITY_MAP" :> SEVERITY_MAP
    @@ "LogCleaner.ENVIRONMENT_MAP" :> ENVIRONMENT_MAP
    @@ "BugReportETL.PRIORITY_MAP" :> PRIORITY_MAP
    @@ "BugReportETL.STATUS_MAP" :> STATUS_MAP
    @@ "BugReportETL.COMPONENT_MAP" :> COMPONENT_MAP
    @@ "BugReportETL.SDLC_MAP" :> SDLC_MAP
    @@ "BugReportETL.ENVIRONMENT_MAP" :> ETL_ENVIRONMENT_MAP
\* the maps that are locals of clean_browsers
LocalMaps ==
    "clean_browsers.browser_map" :> BROWSER_MAP
    @@ "clean_browsers.os_map" :> OS_MAP
\* every key and every value of the maps, two texts that are neither, and a
\* missing value
MapInputs ==
    {Null} \cup {Str(x) : x \in {"Unknown", "URGENT"}
                            \cup UNION {Keys(ClassMaps[n]) \cup Values(ClassMaps[n]) :
                                          n \in DOMAIN ClassMaps}
                            \cup UNION {Keys(LocalMaps[n]) \cup Values(LocalMaps[n]) :
                                          n \in DOMAIN LocalMaps}}
InitMaps ==
    /\ cls = "fn"
    /\ NoLogCleaner /\ NoETL /\ NoCalls
    /\ fn = "none" /\ arg \in MapInputs /\ result = Null
\* "column.map(self.<MAP>)" on the one value arg
ApplyMap(name) ==
    /\ fn = "none" /\ arg \in MapInputs
    /\ fn' = name
    /\ result' = map_dict(ClassMaps[name], arg)
    /\ UNCHANGED <<cls, arg, lcVars, etlVars, callVars>>
Apply_SEVERITY_MAP == cls = "fn" /\ ApplyMap("LogCleaner.SEVERITY_MAP")
Apply_ENVIRONMENT_MAP == cls = "fn" /\ ApplyMap("LogCleaner.ENVIRONMENT_MAP")
Apply_PRIORITY_MAP == cls = "fn" /\ ApplyMap("BugReportETL.PRIORITY_MAP")
Apply_STATUS_MAP == cls = "fn" /\ ApplyMap("BugReportETL.STATUS_MAP")
Apply_COMPONENT_MAP == cls = "fn" /\ ApplyMap("BugReportETL.COMPONENT_MAP")
Apply_SDLC_MAP == cls = "fn" /\ ApplyMap("BugReportETL.SDLC_MAP")
Apply_ETL_ENVIRONMENT_MAP == cls = "fn" /\ ApplyMap("BugReportETL.ENVIRONMENT_MAP")
\* "column.map(<map>)" of clean_browsers on the one value arg
ApplyLocalMap(name) ==
    /\ fn = "none" /\ arg \in MapInputs
    /\ fn' = name
    /\ result' = map_dict(LocalMaps[name], arg)
    /\ UNCHANGED <<cls, arg, lcVars, etlVars, callVars>>
Apply_browser_map == cls = "fn" /\ ApplyLocalMap("clean_browsers.browser_map")
Apply_os_map == cls = "fn" /\ ApplyLocalMap("clean_browsers.os_map")
NextMaps ==
    \/ Apply_browser_map
    \/ Apply_os_map
    \/ Apply_SEVERITY_MAP
    \/ Apply_ENVIRONMENT_MAP
    \/ Apply_PRIORITY_MAP
    \/ Apply_STATUS_MAP
    \/ Apply_COMPONENT_MAP
    \/ Apply_SDLC_MAP
    \/ Apply_ETL_ENVIRONMENT_MAP
SpecMaps == InitMaps /\ [][NextMaps]_vars

(***************************************************************************)
(* The per-value helpers applied to one value.                             *)
(***************************************************************************)
\* the groups joined by points
RECURSIVE Dotted(_)
Dotted(groups) ==
    IF Len(groups) = 1 THEN groups[1]
    ELSE groups[1] \o <<".">> \o Dotted(Tail(groups))
IpGroups == {<<"0">>, <<"1">>, <<"9","9","9">>, <<"1","2","3","4">>, <<"a">>}
\* three or four groups of every kind, the addresses of the datasets, the
\* sentinels (bare and padded) and the short texts
IpTexts ==
    {Dotted(g) : g \in [1..3 -> IpGroups] \cup [1..4 -> IpGroups]}
      \cup {IP_PRIVATE, IP_TEN, IP_999, IP_3GROUPS, IP_PADDED, IP_4DIGITS, IP_LETTERS,
            INVALID_IP, ZERO_IP, <<" ">> \o ZERO_IP, INVALID_IP \o <<" ">>,
            IP_TEN \o <<".", "1">>, IP_TEN \o <<".">>, <<".">> \o IP_TEN}
      \cup ShortTexts
IpInputs == {Null, Num(0), Num(1234)} \cup {Txt(t) : t \in IpTexts}
\* the short texts bare and behind the prefix, and the ids of the datasets
UserIdTexts ==
    ShortTexts \cup {USR_PREFIX \o t : t \in ShortTexts}
      \cup {UID_USR1234, UID_5678, UID_ABC, UID_PADDED, UID_12A, UNKNOWN, NAN_TEXT,
            <<" ">> \o UNKNOWN, <<"u","s","r","-","1">>, <<" ">> \o UID_USR1234}
UserIdInputs ==
    {Null, Num(5678), Flt(FALSE, <<"5","6","7","8">>, <<>>)}
      \cup {Txt(t) : t \in UserIdTexts}
\* one or two keywords of different rules, in both orders
TitleWords ==
    {<<"c", "r", "a", "s", "h">>,
     <<"n", "u", "l", "l", " ", "p", "o", "i", "n", "t", "e", "r">>,
     <<"u", "i">>,
     <<"t", "i", "m", "e", "o", "u", "t">>,
     <<"x", "s", "s">>,
     <<"a", "p", "i">>,
     <<"5", "0", "0">>,
     <<"d", "a", "t", "a">>}
\* the titles of the tests' datasets and titles in other spellings
TitleSamples ==
    {<<"L", "o", "g", "i", "n", " ", "c", "r", "a", "s", "h">>,
     <<"U", "I", " ", "b", "r", "o", "k", "e", "n">>,
     <<"B", "u", "g", ":", " ", "A", "P", "I", " ", "r", "e", "t", "u", "r", "n", "s", " ", "4", "0", "4">>,
     <<"U", "I", ":", " ", "B", "u", "t", "t", "o", "n", " ", "b", "r", "o", "k", "e", "n">>,
     <<"l", "o", "g", "i", "n", " ", "b", "r", "o", "k", "e", "n">>,
     <<"s", "l", "o", "w", " ", "p", "e", "r", "f", "o", "r", "m", "a", "n", "c", "e">>,
     <<"X", "S", "S", " ", "i", "n", " ", "s", "e", "a", "r", "c", "h">>,
     <<"B", "u", "i", "l", "d", " ", "f", "a", "i", "l", "e", "d">>,
     <<"C", "R", "A", "S", "H">>,
     <<"T", "y", "p", "o">>,
     <<"S", "e", "a", "r", "c", "h", " ", "r", "e", "s", "u", "l", "t", "s", " ", "w", "r", "o", "n", "g">>,
     <<"N", "o", "n", "e">>}
TitleTexts ==
    TitleWords \cup TitleSamples \cup ShortTexts
      \cup {a \o <<" ">> \o b : a, b \in TitleWords}
TitleInputs == {Null, NaT, Num(404)} \cup {Txt(t) : t \in TitleTexts}
\* labels of the tests' issues and other spellings
W_LOW_PRIORITY == <<"l", "o", "w", "-", "p", "r", "i", "o", "r", "i", "t", "y">>
LabelTexts ==
    {W_BUG, W_CRITICAL, W_LOW_PRIORITY, <<"H", "i", "g", "h">>, <<"B", "U", "G">>,
     <<"b", "u", "g", "s">>, <<"d", "o", "c", "s">>}
\* a list of up to two labels, or a value that is not a list
LabelInputs ==
    {Null, Txt(W_BUG)} \cup {List(<<>>)} \cup {List(<<a>>) : a \in LabelTexts}
      \cup {List(<<a, b>>) : a, b \in LabelTexts}
\* time_spent_minutes of the tests' datasets and other forms: numbers, texts
\* of numbers, "<n> hours" and "<n> days" with n positive, zero and negative
TimeTexts ==
    {<<"2", " ", "h", "o", "u", "r", "s">>, <<"0", " ", "h", "o", "u", "r", "s">>,
     <<"-", "2", " ", "h", "o", "u", "r", "s">>, <<"1", ".", "5", " ", "h", "o", "u", "r", "s">>,
     <<"a", " ", "f", "e", "w", " ", "h", "o", "u", "r", "s">>,
     <<"3", " ", "d", "a", "y", "s">>, <<"0", " ", "d", "a", "y", "s">>,
     <<"-", "1", " ", "d", "a", "y", "s">>, <<"1", " ", "d", "a", "y">>,
     <<"4", "5">>, <<"0">>, <<"-", "3">>, <<"0", ".", "5">>, <<" ", "9", "0", " ">>,
     N_A, NONE_TEXT, <<>>, <<"s", "o", "o", "n">>}
TimeInputs ==
    {Null, Num(120), Num(0), Num(-5)} \cup {Txt(t) : t \in TimeTexts}
CellInputs ==
    IpInputs \cup UserIdInputs \cup TitleInputs \cup LabelInputs \cup TimeInputs
InitCells ==
    /\ cls = "fn"
    /\ NoLogCleaner /\ NoETL /\ NoCalls
    /\ fn = "none" /\ arg \in CellInputs /\ result = Null
\* helper(arg) is called
ApplyCell(name, value) ==
    /\ fn = "none"
    /\ fn' = name
    /\ result' = value
    /\ UNCHANGED <<cls, arg, lcVars, etlVars, callVars>>
Apply_clean_single_ip ==
    /\ cls = "fn" /\ arg \in IpInputs
    /\ ApplyCell("_clean_single_ip", clean_single_ip(arg))
Apply_clean_single_user_id ==
    /\ cls = "fn" /\ arg \in UserIdInputs
    /\ ApplyCell("_clean_single_user_id", clean_single_user_id(arg))
Apply_classify_bug_type ==
    /\ cls = "fn" /\ arg \in TitleInputs
    /\ ApplyCell("classify_bug_type", classify_bug_type(arg))
Apply_extract_priority_from_labels ==
    /\ cls = "fn" /\ arg \in LabelInputs
    /\ ApplyCell("extract_priority_from_labels", extract_priority_from_labels(arg))
Apply_parse_time ==
    /\ cls = "fn" /\ arg \in TimeInputs
    /\ ApplyCell("parse_time", parse_time(arg))
NextCells ==
    \/ Apply_parse_time
    \/ Apply_extract_priority_from_labels
    \/ Apply_clean_single_ip
    \/ Apply_clean_single_user_id
    \/ Apply_classify_bug_type
SpecCells == InitCells /\ [][NextCells]_vars
(***************************************************************************)
(* Claims about the timestamp parsers (under SpecParse).                   *)
(***************************************************************************)
Applied == fn # "none"

\* C6: for every input value each parser returns an instant or not-a-time; it
\* never raises and never returns the raw text.
C6_ParsersTotal == Applied => result.k \in {"ts", "nat"}
\* a text nothing parses has been turned into not-a-time
C6_Witness == fn = "_parse_date" /\ arg = Txt(TS_GARBAGE) /\ result = NaT

IsoFields(y, mo, d, h, mi, sec) ==
    [year |-> y, month |-> mo, day |-> d, hour |-> h, minute |-> mi,
     second |-> sec, frac |-> <<>>]
ScenarioB(expected) ==
    /\ (fn = "_parse_single_timestamp" /\ arg = Txt(TS_EPOCH))
          => (result.k = "ts" /\ Civil(result) = expected)
    /\ (fn = "_parse_single_timestamp" /\ arg = Txt(INVALID_TIME)) => result = NaT
\* C7 as stated: "1705312200.0" is the instant 2024-01-15T10:30:00 and
\* "INVALID_TIME" is not-a-time.
C7_AsStated == ScenarioB(IsoFields(2024, 1, 15, 10, 30, 0))
\* C7 (amended): "1705312200.0", a count of Unix epoch seconds, is the instant
\* 2024-01-15T09:50:00 (1705312200 = 19737 days + 35400 s), and "INVALID_TIME"
\* is not-a-time.
C7_ScenarioB == ScenarioB(IsoFields(2024, 1, 15, 9, 50, 0))
C7_Witness ==
    fn = "_parse_single_timestamp" /\ arg = Txt(TS_EPOCH) /\ result.k = "ts"

\* the sentinels the cascade lists
ListedSentinels ==
    {INVALID_TIME, INVALID_DATE, N_A, NOT_YET, LAST_WEEK, YESTERDAY}
\* the cascade of C8: (1) null, empty or a listed sentinel; (2) a number, as
\* epoch seconds; (3) the date/time grammar; (4) not-a-time.  With strict set, a
\* number is always decided by (2); without it a number that has no instant
\* as epoch seconds is passed on to (3).
Cascade(v, strict) ==
    IF isna(v) THEN NaT
    ELSE LET s == Strip(str(v))
             n == float(s)
             e == to_datetime_unit_s(n)
             g == to_datetime(s)
         IN  IF s = <<>> \/ s \in ListedSentinels THEN NaT
             ELSE IF n.ok /\ (strict \/ e.ok) THEN e.v
             ELSE IF g.ok THEN g.v
             ELSE NaT
\* C8 as stated: both parsers compute the cascade in which every value that
\* parses as a number is converted as Unix epoch seconds.
C8_AsStated == Applied => result = Cascade(arg, TRUE)
\* C8 (amended): both parsers compute the cascade in which step (2) takes the
\* values that parse as a number and have an instant as epoch seconds; a
\* number out of the instant range is passed on to the grammar of step (3).
C8_Cascade == Applied => result = Cascade(arg, FALSE)
\* a digit text that is also a date was converted as epoch seconds
C8_Witness ==
    /\ fn = "_parse_date" /\ arg = Txt(TS_COMPACT8)
    /\ result.k = "ts" /\ Civil(result).year = 1970

(***************************************************************************)
(* Claims about the lineage log (under Spec).                              *)
(***************************************************************************)
Steps(log) == [i \in DOMAIN log |-> log[i].step]
\* run_full_pipeline was the one call made on a LogCleaner, and it returned
FreshFullRun ==
    cls = "LogCleaner" /\ fn = "run_full_pipeline" /\ calls = 1 /\ ~raised

\* C1: after run_full_pipeline on a freshly constructed LogCleaner the steps of
\* cleaning_log are 1, 2, ..., 8 in that order, and rows_after of every entry
\* equals rows_before of the next.
C1_FullPipelineLog ==
    FreshFullRun =>
        /\ Steps(cleaning_log) = <<1, 2, 3, 4, 5, 6, 7, 8>>
        /\ \A i \in 1..7 :
              cleaning_log[i].rows_after = cleaning_log[i + 1].rows_before
\* the run removed a duplicate, so the row count changed along the chain
C1_Witness ==
    FreshFullRun /\ cleaning_log[1].rows_after < cleaning_log[1].rows_before

\* C2 as stated: whatever stage calls were made on one instance, the steps in
\* cleaning_log start at 1 and are strictly increasing.
C2_AsStated ==
    cleaning_log # <<>> =>
        /\ cleaning_log[1].step = 1
        /\ \A i \in 1..(Len(cleaning_log) - 1) :
              cleaning_log[i].step < cleaning_log[i + 1].step

LogCleanerStages ==
    {"remove_duplicates", "standardize_severity", "standardize_environment",
     "standardize_timestamps", "clean_response_time", "clean_ip_addresses",
     "clean_user_ids", "fill_missing_categories"}
ETLStages ==
    {"transform_and_unify", "clean_duplicates", "clean_priority", "clean_status",
     "clean_component", "clean_environment", "clean_sdlc_phase", "clean_dates",
     "clean_time_spent", "clean_reporters", "clean_browsers", "add_computed_fields"}
\* this step is a call of one of the stage methods
StageCalled == calls' = calls + 1 /\ fn' \in LogCleanerStages \cup ETLStages
Appended == Len(cleaning_log') - Len(cleaning_log)
\* the entries a transform_and_unify that raises has written before it does
LoggedBeforeRaise ==
    IF fn' # "transform_and_unify" \/ ~readable(jira_data, SOURCE_FIELDS.JIRA) THEN 0
    ELSE IF ~readable(github_data, SOURCE_FIELDS.GitHub) THEN 1 ELSE 2
\* C3 as stated: every executed stage (a call of a stage method that returns)
\* makes cleaning_log exactly one entry longer.
C3_AsStated == [][(StageCalled /\ ~raised') => Appended = 1]_vars
\* C3 (amended): a call of a stage method that returns makes cleaning_log
\* exactly one entry longer, except transform_and_unify, which makes it four
\* entries longer; a call that raises adds no entry, except a
\* transform_and_unify that fails at the GitHub or the Excel source, which has
\* added one or two.
C3_EntriesPerStage ==
    [][StageCalled =>
          Appended = IF raised' THEN LoggedBeforeRaise
                     ELSE IF fn' = "transform_and_unify" THEN 4 ELSE 1]_vars
\* transform_and_unify returned on a new BugReportETL and left four entries
C3_Witness ==
    /\ cls = "BugReportETL" /\ fn = "transform_and_unify" /\ calls = 1 /\ ~raised
    /\ Steps(cleaning_log) = <<1, 2, 3, 4>>

IsPrefix(a, b) == Len(a) <= Len(b) /\ SubSeq(b, 1, Len(a)) = a
\* C4: the cleaning_log before any operation (a stage call, run_full_pipeline,
\* get_quality_report, export_lineage) is a prefix of the cleaning_log after it.
C4_AppendOnly == [][IsPrefix(cleaning_log, cleaning_log')]_vars
\* export_lineage was called after a run and left the eight entries alone
C4_Witness ==
    /\ cls = "LogCleaner" /\ fn = "export_lineage" /\ calls = 2 /\ ~raised
    /\ Len(cleaning_log) = 8 /\ result.cleaning_steps = cleaning_log

(***************************************************************************)
(* Claims about single stages of LogCleaner (under SpecStages: raw_data is *)
(* the dataset the stage was called on).                                   *)
(***************************************************************************)
Returned_from(name) == cls = "LogCleaner" /\ fn = name /\ ~raised
Before(i, col) == raw_data.rows[i][col]
After(i, col) == clean_data.rows[i][col]
SameRows == Len(clean_data.rows) = Len(raw_data.rows)

\* the response times after clean_response_time that are not missing
ResponseTimes ==
    {After(i, "response_time_ms") : i \in DOMAIN clean_data.rows} \ {Null}
\* C5 as stated: after clean_response_time with the default bounds every
\* response time v that is not missing satisfies 1 <= v < 10000.
C5_AsStated ==
    Returned_from("clean_response_time") =>
        \A v \in ResponseTimes : ~Less(v, 1) /\ Less(v, 10000)
\* C5 (amended): after clean_response_time with the default bounds every
\* response time v that is not missing satisfies 1 <= v <= 10000; both bounds
\* are inclusive, so a value equal to 10000 is kept.
C5_ClosedRange ==
    Returned_from("clean_response_time") =>
        /\ \A v \in ResponseTimes : ~Less(v, 1) /\ ~Greater(v, 10000)
        /\ SameRows
        /\ \A i \in DOMAIN raw_data.rows :
              Before(i, "response_time_ms") = Num(10000)
                  => After(i, "response_time_ms") = Num(10000)
\* a response time of exactly 10000 went through the stage
C5_Witness ==
    /\ Returned_from("clean_response_time")
    /\ \E i \in DOMAIN raw_data.rows :
          Before(i, "response_time_ms") = Num(10000)
          /\ After(i, "response_time_ms") = Num(10000)

\* one value mapped as C9 says: a key becomes its canonical value, another
\* value becomes missing, a missing value stays missing
MappedValue(m, before, after) ==
    IF isna(before) THEN after = before
    ELSE IF before.s \in Keys(m) THEN after = Str((CHOOSE p \in m : p[1] = before.s)[2])
    ELSE after = Null
MappedColumn(m, col, canonical) ==
    /\ SameRows
    /\ \A i \in DOMAIN raw_data.rows :
          /\ MappedValue(m, Before(i, col), After(i, col))
          /\ notna(After(i, col)) => After(i, col).s \in canonical
\* C9: standardize_severity and standardize_environment map each value of
\* their field on its own (a key to its canonical value, any other value to
\* missing, a missing value to itself) and raise nothing, so every severity
\* left is Critical, High, Medium or Low and every environment production,
\* staging or development.
C9_PerValueMapping ==
    /\ (cls = "LogCleaner" /\ fn = "standardize_severity") =>
          /\ ~raised
          /\ MappedColumn(SEVERITY_MAP, "severity", {"Critical", "High", "Medium", "Low"})
    /\ (cls = "LogCleaner" /\ fn = "standardize_environment") =>
          /\ ~raised
          /\ MappedColumn(ENVIRONMENT_MAP, "environment",
                          {"production", "staging", "development"})
\* a key and a value that is no key went through standardize_severity together
C9_Witness ==
    /\ Returned_from("standardize_severity")
    /\ \E i, j \in DOMAIN raw_data.rows :
          /\ Before(i, "severity") = Str("P1") /\ After(i, "severity") = Str("Critical")
          /\ Before(j, "severity") = Str("URGENT") /\ After(j, "severity") = Null

(***************************************************************************)
(* Claims about the value maps (under SpecMaps).                           *)
(***************************************************************************)
\* C10: in each of the seven class-level maps every value of the range is a
\* key that maps to itself, so the map applied to a canonical value returns it.
C10_CanonicalFixedPoints ==
    /\ \A n \in DOMAIN ClassMaps :
          \A c \in Values(ClassMaps[n]) : <<c, c>> \in ClassMaps[n]
    /\ (fn \in DOMAIN ClassMaps /\ arg.k = "str" /\ arg.s \in Values(ClassMaps[fn]))
          => result = arg
\* a canonical value was looked up in the map it is canonical for
C10_Witness ==
    /\ fn = "BugReportETL.SDLC_MAP" /\ arg = Str("Testing") /\ result = Str("Testing")

(***************************************************************************)
(* Claims about deduplication (under Spec).                                *)
(***************************************************************************)
\* the dedup key of every row: the whole record, and (ticket_id, title, source)
WholeRecords(rows) == rows
TicketKeys(rows) ==
    [i \in DOMAIN rows |-> <<rows[i].ticket_id, rows[i].title, rows[i].source>>]
\* after holds, in input order, the earliest row of before for each key (kb and
\* ka are the keys of the rows of before and after)
KeepsFirst(before, after, kb, ka) ==
    /\ \A i, j \in DOMAIN after : ka[i] = ka[j] => i = j
    /\ Range(ka) = Range(kb)
    /\ \E f \in [DOMAIN after -> DOMAIN before] :
          /\ \A i, j \in DOMAIN after : i < j => f[i] < f[j]
          /\ \A i \in DOMAIN after :
                /\ after[i] = before[f[i]]
                /\ \A j \in 1..(f[i] - 1) : kb[j] # kb[f[i]]
\* this step is a call of the method name of class c that returned
ReturnedCall(c, name) ==
    cls = c /\ calls' = calls + 1 /\ fn' = name /\ ~raised'
\* the six rows of the tests' dataset: the last two are identical
SixRows == SubSeq(LogRows, 1, 5) \o <<LogRows[5]>>
IsGroup(t) == Len(t) \in 1..3 /\ \A i \in DOMAIN t : t[i] \in Range(Digits)
\* four groups of one to three digits with a point between them
IsFourGroups(t) ==
    \E a, b, c \in DOMAIN t :
        /\ a < b /\ b < c
        /\ t[a] = "." /\ t[b] = "." /\ t[c] = "."
        /\ IsGroup(SubSeq(t, 1, a - 1)) /\ IsGroup(SubSeq(t, a + 1, b - 1))
        /\ IsGroup(SubSeq(t, b + 1, c - 1)) /\ IsGroup(SubSeq(t, c + 1, Len(t)))
\* the text of a value with the blanks around it removed
Trimmed(v) == Strip(str(v))
IsBlank(v) == notna(v) /\ Trimmed(v) = <<>>
\* C12 as stated: _clean_single_ip returns missing for a null value, a blank
\* value, "0.0.0.0" and "INVALID_IP"; any other value is returned unchanged
\* exactly when it consists of four dot-separated groups of 1 to 3 digits, and
\* is missing otherwise.
C12_AsStated ==
    fn = "_clean_single_ip" =>
        result = IF isna(arg) \/ IsBlank(arg) \/ arg \in {Txt(ZERO_IP), Txt(INVALID_IP)}
                 THEN Null
                 ELSE IF arg.k = "txt" /\ IsFourGroups(arg.t) THEN arg ELSE Null
\* C12 (amended): _clean_single_ip returns missing for a null value and for a
\* value whose text, with the blanks around it removed, is empty, "0.0.0.0" or
\* "INVALID_IP"; otherwise it returns that trimmed text exactly when it
\* consists of four dot-separated groups of 1 to 3 digits (no range check:
\* "999.999.999.999" is retained, " 10.0.0.1 " gives "10.0.0.1"), and missing
\* otherwise.
C12_TrimmedStructure ==
    fn = "_clean_single_ip" =>
        /\ result = IF isna(arg) \/ Trimmed(arg) \in {<<>>, ZERO_IP, INVALID_IP}
                    THEN Null
                    ELSE IF IsFourGroups(Trimmed(arg)) THEN Txt(Trimmed(arg)) ELSE Null
        /\ arg = Txt(IP_999) => result = arg
\* the address whose groups are out of range went through and was retained
C12_Witness ==
    fn = "_clean_single_ip" /\ arg = Txt(IP_999) /\ result = Txt(IP_999)

OnlyDigits(t) == Len(t) > 0 /\ \A i \in DOMAIN t : t[i] \in Range(Digits)
HasUsrPrefix(t) == Len(t) >= 4 /\ SubSeq(t, 1, 4) = <<"U", "S", "R", "-">>
Wrapped(t) == Txt(<<"U", "S", "R", "-">> \o t)
\* C13 as stated: _clean_single_user_id returns missing for null, blank,
\* "UNKNOWN" and the text "nan"; a value that already starts with "USR-" is
\* returned unchanged; a value made only of digits is returned behind "USR-";
\* anything else is missing.
C13_AsStated ==
    fn = "_clean_single_user_id" =>
        result = IF isna(arg) \/ IsBlank(arg) \/ arg \in {Txt(UNKNOWN), Txt(NAN_TEXT)}
                 THEN Null
                 ELSE IF HasUsrPrefix(str(arg)) THEN arg
                 ELSE IF OnlyDigits(str(arg)) THEN Wrapped(str(arg))
                 ELSE Null
\* C13 (amended): _clean_single_user_id returns missing for null and for a
\* value whose text, with the blanks around it removed, is empty, "UNKNOWN" or
\* "nan"; it returns that trimmed text when it starts with "USR-", "USR-"
\* followed by the trimmed text when it is made only of digits ("5678" gives
\* "USR-5678", " 42 " gives "USR-42"), and missing for anything else; so every
\* result that is not missing starts with "USR-".
C13_TrimmedPrefixCode ==
    fn = "_clean_single_user_id" =>
        /\ result = IF isna(arg) \/ Trimmed(arg) \in {<<>>, UNKNOWN, NAN_TEXT}
                    THEN Null
                    ELSE IF HasUsrPrefix(Trimmed(arg)) THEN Txt(Trimmed(arg))
                    ELSE IF OnlyDigits(Trimmed(arg)) THEN Wrapped(Trimmed(arg))
                    ELSE Null
        /\ notna(result) => result.k = "txt" /\ HasUsrPrefix(result.t)
\* a bare number was given the prefix
C13_Witness ==
    /\ fn = "_clean_single_user_id" /\ arg = Txt(UID_5678)
    /\ result = Txt(<<"U", "S", "R", "-", "5", "6", "7", "8">>)

\* the rules of classify_bug_type in their order
BugTypeRules ==
    << [category |-> "Crash/Fatal",
        words |-> {<<"c", "r", "a", "s", "h">>,
                  <<"e", "x", "c", "e", "p", "t", "i", "o", "n">>,
                  <<"n", "u", "l", "l", " ", "p", "o", "i", "n", "t", "e", "r">>}],
       [category |-> "UI/Visual",
        words |-> {<<"u", "i">>, <<"c", "s", "s">>, <<"b", "u", "t", "t", "o", "n">>,
                  <<"o", "v", "e", "r", "l", "a", "p", "p", "i", "n", "g">>,
                  <<"a", "l", "i", "g", "n", "m", "e", "n", "t">>,
                  <<"l", "o", "o", "k", "s", " ", "w", "e", "i", "r", "d">>}],
       [category |-> "Performance",
        words |-> {<<"s", "l", "o", "w">>, <<"t", "i", "m", "e", "o", "u", "t">>,
                  <<"p", "e", "r", "f", "o", "r", "m", "a", "n", "c", "e">>,
                  <<"m", "e", "m", "o", "r", "y", " ", "l", "e", "a", "k">>}],
       [category |-> "Security",
        words |-> {<<"s", "e", "c", "u", "r", "i", "t", "y">>, <<"x", "s", "s">>,
                  <<"v", "u", "l", "n", "e", "r", "a", "b", "i", "l", "i", "t", "y">>,
                  <<"p", "e", "r", "m", "i", "s", "s", "i", "o", "n">>}],
       [category |-> "API/Integration",
        words |-> {<<"a", "p", "i">>, <<"5", "0", "0">>, <<"4", "0", "4">>,
                  <<"g", "a", "t", "e", "w", "a", "y">>}],
       [category |-> "Data Integrity",
        words |-> {<<"d", "a", "t", "a">>, <<"w", "r", "o", "n", "g">>,
                  <<"c", "a", "l", "c", "u", "l", "a", "t", "i", "o", "n">>,
                  <<"s", "e", "a", "r", "c", "h", " ", "r", "e", "s", "u", "l", "t", "s">>}] >>
\* w is a substring of text
Occurs(w, text) ==
    \E i \in 0..(Len(text) - Len(w)) : SubSeq(text, i + 1, i + Len(w)) = w
RuleMatches(k, text) == \E w \in BugTypeRules[k].words : Occurs(w, text)
\* the category of the first rule that matches, the fallback when none does
FirstMatch(text) ==
    IF \E k \in DOMAIN BugTypeRules : RuleMatches(k, text)
    THEN BugTypeRules[CHOOSE k \in DOMAIN BugTypeRules :
                         /\ RuleMatches(k, text)
                         /\ \A j \in 1..(k - 1) : ~RuleMatches(j, text)].category
    ELSE "Functional"
\* C14: classify_bug_type gives the category of the first of the rules
\* Crash/Fatal, UI/Visual, Performance, Security, API/Integration, Data
\* Integrity, in that order, that has a keyword occurring in the lower-cased
\* title ("crash" with "timeout" is Crash/Fatal), and "Functional" when no rule
\* matches; the result is never missing, also for a missing title.
C14_FirstMatchWins ==
    /\ [k \in DOMAIN BugTypeRules |-> BugTypeRules[k].category]
          = <<"Crash/Fatal", "UI/Visual", "Performance", "Security",
              "API/Integration", "Data Integrity">>
    /\ fn = "classify_bug_type" =>
          /\ result = Str(FirstMatch(lower(str(arg))))
          /\ notna(result)
\* a title with keywords of two rules got the category of the earlier rule
C14_Witness ==
    /\ fn = "classify_bug_type"
    /\ arg = Txt(<<"t", "i", "m", "e", "o", "u", "t", " ", "c", "r", "a", "s", "h">>)
    /\ result = Str("Crash/Fatal")

(***************************************************************************)
(* Claims about unification (under SpecUnify).                             *)
(***************************************************************************)
Unified == cls = "BugReportETL" /\ fn = "transform_and_unify" /\ ~raised
\* the unified record at position i of the part that starts after `before` rows
UnifiedRow(before, i) == unified_data.rows[before + i]
\* C15: after transform_and_unify unified_data holds the JIRA rows, then the
\* GitHub rows, then the Excel rows, each source's rows in their order; its
\* length is the sum of the three lengths; every record has the same 16 target
\* fields in the same order; and the source field of every record names the
\* source it came from.
C15_ConcatenatedInOrder ==
    /\ TARGET_FIELDS.JIRA = TARGET_FIELDS.GitHub
    /\ TARGET_FIELDS.JIRA = TARGET_FIELDS.Excel
    /\ Len(TARGET_FIELDS.JIRA) = 16 /\ Cardinality(Range(TARGET_FIELDS.JIRA)) = 16
    /\ Unified =>
          LET J == Len(jira_data.rows)
              G == Len(github_data.rows)
              X == Len(excel_data.rows)
          IN  /\ Len(unified_data.rows) = J + G + X
              /\ \A i \in DOMAIN unified_data.rows :
                    DOMAIN unified_data.rows[i] = Range(TARGET_FIELDS.JIRA)
              /\ \A i \in 1..J :
                    /\ UnifiedRow(0, i).source = Str("JIRA")
                    /\ UnifiedRow(0, i).ticket_id = jira_data.rows[i].ticket_id
                    /\ UnifiedRow(0, i).title = jira_data.rows[i].title
                    /\ UnifiedRow(0, i).priority = jira_data.rows[i].priority
              /\ \A i \in 1..G :
                    /\ UnifiedRow(J, i).source = Str("GitHub")
                    /\ UnifiedRow(J, i).title = github_data.rows[i].title
                    /\ UnifiedRow(J, i).reporter = github_data.rows[i].user
              /\ \A i \in 1..X :
                    /\ UnifiedRow(J + G, i).source = Str("Excel")
                    /\ UnifiedRow(J + G, i).title = excel_data.rows[i].bug_title
                    /\ UnifiedRow(J + G, i).priority = excel_data.rows[i].severity
\* all three sources had rows, the JIRA rows not in the order of the pool
C15_Witness ==
    /\ Unified
    /\ jira_data.rows = <<JiraRows[2], JiraRows[1]>>
    /\ Len(github_data.rows) = 2 /\ Len(excel_data.rows) = 1
    /\ Len(unified_data.rows) = 5

(***************************************************************************)
(* Claims about the priority of a GitHub issue (under SpecCells).          *)
(***************************************************************************)
SomeLabelHolds(labels, word) == \E j \in DOMAIN labels : contains(lower(labels[j]), word)
\* the keyword precedence over the whole list
KeywordPrecedence(labels) ==
    IF SomeLabelHolds(labels, W_CRITICAL) THEN Str("Critical")
    ELSE IF SomeLabelHolds(labels, W_HIGH) THEN Str("High")
    ELSE IF SomeLabelHolds(labels, W_LOW) THEN Str("Low")
    ELSE IF \E j \in DOMAIN labels : lower(labels[j]) = W_BUG THEN Str("Medium")
    ELSE Null
\* C16: the priority of a GitHub label list follows the keyword precedence
\* over the whole list: Critical if some label contains "critical", else High
\* if some label contains "high", else Low if some label contains "low", else
\* Medium if some label equals "bug", else missing, whatever the order of the
\* labels.
C16_AsStated ==
    (fn = "extract_priority_from_labels" /\ arg.k = "list")
        => result = KeywordPrecedence(arg.items)
\* what the loop does decide: the first label that holds one of the three
\* words decides alone, with critical before high before low in that label
FirstDeciding(labels) ==
    {j \in DOMAIN labels :
        /\ \E w \in {W_CRITICAL, W_HIGH, W_LOW} : contains(lower(labels[j]), w)
        /\ \A i \in 1..(j - 1) :
              \A w \in {W_CRITICAL, W_HIGH, W_LOW} : ~contains(lower(labels[i]), w)}
C16_FirstLabelDecides ==
    (fn = "extract_priority_from_labels" /\ arg.k = "list")
        => /\ \A j \in FirstDeciding(arg.items) :
                 result = KeywordPrecedence(<<arg.items[j]>>)
           /\ FirstDeciding(arg.items) = {} => result = KeywordPrecedence(arg.items)
C16_Witness ==
    /\ fn = "extract_priority_from_labels"
    /\ arg = List(<<W_LOW_PRIORITY, W_CRITICAL>>)
    /\ result = Str("Low")

\* the source is a frame without one of the columns its transformation reads
Lacks(frame, fields) == frame.df /\ ~readable(frame, fields)
SomeSourceLacks ==
    \/ Lacks(jira_data, SOURCE_FIELDS.JIRA)
    \/ Lacks(github_data, SOURCE_FIELDS.GitHub)
    \/ Lacks(excel_data, SOURCE_FIELDS.Excel)
\* C17: if a source lacks a field its mapping reads, transform_and_unify
\* fails, unified_data stays unset, and under run_full_pipeline no later
\* stage runs: the log holds at most the entries of the sources transformed
\* before the failing one (steps 1 and 2).
C17_SchemaMismatchAborts ==
    (/\ cls = "BugReportETL"
     /\ fn \in {"transform_and_unify", "run_full_pipeline"}
     /\ SomeSourceLacks)
        => /\ raised
           /\ unified_data = None
           /\ Len(cleaning_log) <= 2
           /\ \A i \in DOMAIN cleaning_log : cleaning_log[i].step = i
\* the whole pipeline on two good sources and an Excel sheet without "module"
C17_Witness ==
    /\ cls = "BugReportETL" /\ fn = "run_full_pipeline"
    /\ Len(jira_data.rows) = 1 /\ Len(github_data.rows) = 2
    /\ Lacks(excel_data, SOURCE_FIELDS.Excel)
    /\ raised /\ unified_data = None
    /\ Len(cleaning_log) = 2

(***************************************************************************)
(* Claims about the quality report (under SpecReport).                     *)
(***************************************************************************)
\* this step is a call of get_quality_report on a dataset
Reported == calls' = calls + 1 /\ fn' = "get_quality_report" /\ clean_data.df
\* the number of rows of clean_data whose field f is missing
Missing(f) == Cardinality({i \in DOMAIN clean_data.rows : isna(clean_data.rows[i][f])})
\* C18: get_quality_report has no side effects (clean_data, raw_data and
\* cleaning_log stay as they were, so no lineage entry is appended), and its
\* total_rows, total_columns and missing_values are the row count, the field
\* count and the per-field count of missing values of clean_data at that
\* moment, no count above total_rows.
C18_ReportIsPure ==
    [][Reported =>
          /\ ~raised'
          /\ UNCHANGED <<clean_data, raw_data, cleaning_log>>
          /\ result'.total_rows = Len(clean_data.rows)
          /\ result'.total_columns = Len(Columns)
          /\ \A i \in DOMAIN clean_data.rows :
                Cardinality(DOMAIN clean_data.rows[i]) = result'.total_columns
          /\ DOMAIN result'.missing_values = Range(Columns)
          /\ \A f \in Range(Columns) :
                /\ result'.missing_values[f] = Missing(f)
                /\ result'.missing_values[f] <= result'.total_rows]_vars
\* a report after one stage, on two rows, with a field missing in both and a
\* field missing in none
C18_Witness ==
    /\ fn = "get_quality_report" /\ ~raised /\ calls = 2
    /\ Len(cleaning_log) = 1
    /\ result.total_rows = 2
    /\ \E f, g \in Range(Columns) :
          result.missing_values[f] = 2 /\ result.missing_values[g] = 0

(***************************************************************************)
(* Claims about staged invocation (under Spec).                            *)
(***************************************************************************)
\* the first call on LogCleaner(data=...) was a stage method or the report
FirstCallOnDataset ==
    /\ cls = "LogCleaner" /\ raw_data.df
    /\ calls = 1
    /\ fn \in LogCleanerStages \cup {"get_quality_report"}
\* C19: on a LogCleaner constructed with a dataset each stage method and
\* get_quality_report can be called directly, without run_full_pipeline
\* before it, and works on the supplied dataset without failing.
C19_AsStated == FirstCallOnDataset => (~raised /\ clean_data.df)
\* what the code does: the constructor leaves clean_data None, so the first
\* stage or report raises and changes nothing
C19_FirstCallRaises ==
    FirstCallOnDataset => (raised /\ clean_data = None /\ cleaning_log = <<>>)

(***************************************************************************)
(* Claims about the categorical fields of BugReportETL (under Spec).       *)
(***************************************************************************)
\* the field each categorical stage cleans and the map it applies
CategoricalStages ==
    [clean_priority |-> [field |-> "priority", map |-> PRIORITY_MAP],
     clean_status |-> [field |-> "status", map |-> STATUS_MAP],
     clean_component |-> [field |-> "component", map |-> COMPONENT_MAP],
     clean_environment |-> [field |-> "environment", map |-> ETL_ENVIRONMENT_MAP],
     clean_sdlc_phase |-> [field |-> "sdlc_phase", map |-> SDLC_MAP]]
\* v is a canonical value of the map or the label "Unknown"
CanonicalOrUnknown(m, v) == v.k = "str" /\ v.s \in Values(m) \cup {"Unknown"}
\* v is a spelling the map reads that is no canonical value
RawVariant(m, v) == v.k = "str" /\ v.s \in Keys(m) \ Values(m)
\* the last call was the categorical stage `stage` and it returned
Cleaned_by(stage) == cls = "BugReportETL" /\ fn = stage /\ ~raised
\* C20: after clean_priority, clean_status, clean_component,
\* clean_environment and clean_sdlc_phase every value of the cleaned field is
\* a canonical value of the field or "Unknown": none is missing and no raw
\* variant spelling remains.
C20_CanonicalOrUnknown ==
    \A stage \in DOMAIN CategoricalStages :
        Cleaned_by(stage) =>
            \A i \in DOMAIN unified_data.rows :
                LET v == unified_data.rows[i][CategoricalStages[stage].field]
                    m == CategoricalStages[stage].map
                IN  /\ CanonicalOrUnknown(m, v)
                    /\ notna(v)
                    /\ ~RawVariant(m, v)
\* clean_priority on the JIRA row of priority "med" and the Excel row of
\* severity "Urgent", which is no key of the map
C20_Witness ==
    /\ Cleaned_by("clean_priority")
    /\ jira_data.rows = <<JiraRows[2]>> /\ excel_data.rows = <<ExcelRows[2]>>
    /\ Len(unified_data.rows) = 2
    /\ unified_data.rows[1].priority = Str("Medium")
    /\ unified_data.rows[2].priority = Str("Unknown")

(***************************************************************************)
(* Claims about the rows_affected of the lineage (under SpecStages).       *)
(***************************************************************************)
\* the entry the stage that returned has written
LastEntry == cleaning_log[Len(cleaning_log)]
\* the rows whose cell in col was present before the stage and is missing after
Nulled(col) ==
    {i \in DOMAIN raw_data.rows : notna(Before(i, col)) /\ isna(After(i, col))}
Numeric == {i \in DOMAIN raw_data.rows : notna(to_numeric(Before(i, "response_time_ms")))}
Present(col) == {i \in DOMAIN raw_data.rows : notna(Before(i, col))}
\* C22: the entry of standardize_timestamps has rows_affected equal to the
\* number of rows processed (its rows_before), however many values parsed;
\* the entries of standardize_severity and standardize_environment have
\* rows_affected equal to the number of originally non-null values of their
\* field, whether or not the map knows them.
C22_AffectedByStage ==
    /\ Returned_from("standardize_timestamps") =>
          /\ LastEntry.rows_before = Len(raw_data.rows)
          /\ LastEntry.rows_affected = LastEntry.rows_before
    /\ Returned_from("standardize_severity") =>
          LastEntry.rows_affected = Cardinality(Present("severity"))
    /\ Returned_from("standardize_environment") =>
          LastEntry.rows_affected = Cardinality(Present("environment"))
\* two timestamps of which one did not parse, both counted
C22_Witness ==
    /\ Returned_from("standardize_timestamps")
    /\ Len(raw_data.rows) = 2
    /\ notna(Before(1, "timestamp")) /\ isna(After(1, "timestamp"))
    /\ notna(After(2, "timestamp"))
    /\ LastEntry.rows_affected = 2
\* two severities of which the map knows one, both counted
C22_WitnessSeverity ==
    /\ Returned_from("standardize_severity")
    /\ Len(raw_data.rows) = 2
    /\ notna(Before(1, "severity")) /\ isna(After(1, "severity"))
    /\ notna(After(2, "severity"))
    /\ LastEntry.rows_affected = 2

\* the number of rows whose cell in col was missing before the stage
MissingBefore(col) == Cardinality({i \in DOMAIN raw_data.rows : isna(Before(i, col))})
\* the number of rows whose cell in col holds the label after the stage
Labelled(col, label) ==
    Cardinality({i \in DOMAIN clean_data.rows : After(i, col) = Str(label)})
\* C23: the rows_affected of fill_missing_categories is the number of values
\* the stage filled, i.e. the number of severity, module and environment
\* cells that were missing immediately before it; a cell that already held
\* "Unknown", "unknown-module" or "unknown" is not counted.
C23_AsStated ==
    Returned_from("fill_missing_categories") =>
        LastEntry.rows_affected =
            MissingBefore("severity") + MissingBefore("module") + MissingBefore("environment")
\* what the stage records: the cells that hold a label after it, whether it
\* filled them or found them
C23_CountsLabels ==
    Returned_from("fill_missing_categories") =>
        LastEntry.rows_affected =
            Labelled("severity", "Unknown") + Labelled("module", "unknown-module")
              + Labelled("environment", "unknown")

(***************************************************************************)
(* Claims about what a stage leaves alone (under Spec).                    *)
(***************************************************************************)
\* the fields each stage that is no deduplicator assigns
OwnFields ==
    [standardize_severity |-> {"severity"},
     standardize_environment |-> {"environment"},
     standardize_timestamps |-> {"timestamp"},
     clean_response_time |-> {"response_time_ms"},
     clean_ip_addresses |-> {"ip_address"},
     clean_user_ids |-> {"user_id"},
     fill_missing_categories |-> {"severity", "module", "environment"},
     clean_priority |-> {"priority"},
     clean_status |-> {"status"},
     clean_component |-> {"component"},
     clean_environment |-> {"environment"},
     clean_sdlc_phase |-> {"sdlc_phase"},
     clean_dates |-> {"created_date", "resolved_date"},
     clean_time_spent |-> {"time_spent_minutes"},
     clean_reporters |-> {"reporter", "assignee"},
     clean_browsers |-> {"browser", "os"}]
\* the dataset the stages of the class work on
Dataset == IF cls = "LogCleaner" THEN clean_data ELSE unified_data
\* after is before with, row for row, only the cells of fields changed
OnlyFieldsChanged(before, after, fields) ==
    /\ Len(after) = Len(before)
    /\ \A i \in DOMAIN before :
          /\ DOMAIN after[i] = DOMAIN before[i]
          /\ \A c \in (DOMAIN before[i]) \ fields : after[i][c] = before[i][c]
\* C24: every stage other than a deduplicator leaves the number of records
\* and their order unchanged and changes only its own fields: the records
\* after it correspond position by position to the records before it, and
\* every field the stage does not name is unchanged.
C24_OnlyOwnFields ==
    [][\A stage \in DOMAIN OwnFields :
          (calls' = calls + 1 /\ fn' = stage /\ ~raised')
              => OnlyFieldsChanged(Dataset.rows, Dataset'.rows, OwnFields[stage])]_vars
\* clean_reporters turned the reporter and the assignee of the first of two
\* records into "Unknown" and left their order and the other fields alone
C24_Witness ==
    /\ cls = "BugReportETL" /\ fn = "clean_reporters" /\ ~raised
    /\ jira_data.rows = <<JiraRows[2], JiraRows[1]>>
    /\ Len(unified_data.rows) = 2
    /\ unified_data.rows[1].reporter = Txt(REPORTER_UNKNOWN)
    /\ unified_data.rows[1].assignee = Txt(REPORTER_UNKNOWN)
    /\ unified_data.rows[1].priority = JiraRows[2].priority
    /\ unified_data.rows[2].ticket_id = JiraRows[1].ticket_id
    /\ unified_data.rows[2].reporter = JiraRows[1].reporter

(***************************************************************************)
(* Claims about the maps of clean_browsers (under SpecMaps).               *)
(***************************************************************************)
\* a canonical value of the map was looked up in it
CanonicalLookedUp == fn \in DOMAIN LocalMaps /\ arg.k = "str" /\ arg.s \in Values(LocalMaps[fn])
\* C25: the browser and the operating-system map of clean_browsers return
\* every canonical value they produce unchanged (Chrome, Firefox, Safari,
\* Edge, Internet Explorer; Windows, macOS, Linux, iOS, Android).
C25_AsStated ==
    /\ Values(BROWSER_MAP) = {"Chrome", "Firefox", "Safari", "Edge", "Internet Explorer"}
    /\ Values(OS_MAP) = {"Windows", "macOS", "Linux", "iOS", "Android"}
    /\ CanonicalLookedUp => result = arg
\* what the maps do: a canonical value that is a key is returned unchanged,
\* "Internet Explorer" and "Windows" are no keys and become missing
C25_FixedPointsButTwo ==
    CanonicalLookedUp =>
        result = IF arg.s \in {"Internet Explorer", "Windows"} THEN Null ELSE arg

(***************************************************************************)
(* Claims about the values the unification derives (under Spec).          *)
(***************************************************************************)
\* the value _transform_github derives for the field from a GitHub row
Derived(field, r) ==
    IF field = "priority" THEN extract_priority_from_labels(r.labels)
    ELSE IF field = "status" THEN map_dict(STATE_MAP, r.state)
    ELSE extract_component_from_title(r.title)
\* the stage cleaned what one transform_and_unify of the sources had built
CleanedAfterUnify(stage) ==
    /\ Cleaned_by(stage) /\ calls = 2
    /\ Len(cleaning_log) = 5 /\ cleaning_log[4].step = 4
\* the record of unified_data that came from GitHub row i
FromGithub(i) == unified_data.rows[Len(jira_data.rows) + i]
\* C26: every non-missing value the unification derives for a GitHub record
\* (priority from the labels, status from the state, component from the
\* title) is a key of the map the later clean stage applies, so the clean
\* stage never replaces a derived value by "Unknown".
C26_AsStated ==
    \A stage \in {"clean_priority", "clean_status", "clean_component"} :
        CleanedAfterUnify(stage) =>
            \A i \in DOMAIN github_data.rows :
                notna(Derived(CategoricalStages[stage].field, github_data.rows[i]))
                    => FromGithub(i)[CategoricalStages[stage].field] # Str("Unknown")
\* what holds: a derived priority and a derived status stay as derived; a
\* derived component stays unless it is "Security" or "Performance", which
\* COMPONENT_MAP has no key for and clean_component replaces by "Unknown"
C26_DerivedButTwo ==
    \A stage \in {"clean_priority", "clean_status", "clean_component"} :
        CleanedAfterUnify(stage) =>
            \A i \in DOMAIN github_data.rows :
                LET f == CategoricalStages[stage].field
                    d == Derived(f, github_data.rows[i])
                IN  notna(d) =>
                        FromGithub(i)[f] =
                            IF d \in {Str("Security"), Str("Performance")}
                            THEN Str("Unknown") ELSE d

(***************************************************************************)
(* Claims about clean_time_spent (under SpecCells).                        *)
(***************************************************************************)
\* a number cell above zero
StrictlyPositive(v) ==
    \/ v.k = "num" /\ v.n > 0
    \/ v.k = "inf" /\ ~v.neg
    \/ v.k = "flt" /\ ~v.neg /\ \E i \in DOMAIN (v.ip \o v.fp) : (v.ip \o v.fp)[i] # "0"
\* C27: after clean_time_spent every non-missing time_spent_minutes is
\* strictly positive, for every input form: a plain number, "<n> hours" (n*60)
\* or "<n> days" (n*480), also when n is zero or negative.
C27_AsStated ==
    fn = "parse_time" => (notna(result) => StrictlyPositive(result))
\* what holds: a plain number is kept only when it is above zero; an hours or
\* days text whose first word is a number is converted whatever its sign
C27_PlainNumbersOnly ==
    /\ (fn = "parse_time" /\ arg.k = "num") =>
          result = IF arg.n > 0 THEN arg ELSE Null
    /\ (fn = "parse_time" /\ arg = Txt(<<"0", " ", "h", "o", "u", "r", "s">>)) =>
          result = Num(0)
    /\ (fn = "parse_time" /\ arg = Txt(<<"-", "2", " ", "h", "o", "u", "r", "s">>)) =>
          result = Num(-120)
    /\ (fn = "parse_time" /\ arg = Txt(<<"-", "1", " ", "d", "a", "y", "s">>)) =>
          result = Num(-480)
    /\ (fn = "parse_time" /\ arg = Txt(<<"2", " ", "h", "o", "u", "r", "s">>)) =>
          result = Num(120)

\* the entry counts no more rows than the stage was given
WithinRows(e) == 0 <= e.rows_affected /\ e.rows_affected <= e.rows_before
\* C28: every lineage entry a LogCleaner stage writes satisfies
\* 0 <= rows_affected <= rows_before, for any input dataset.
C28_AsStated ==
    cls = "LogCleaner" =>
        \A i \in DOMAIN cleaning_log : WithinRows(cleaning_log[i])
\* what holds: the entries of every stage but fill_missing_categories (step 8)
\* are within the rows; that stage counts cells of three fields, so its entry
\* is within three times the rows
C28_WithinRowsButStep8 ==
    cls = "LogCleaner" =>
        \A i \in DOMAIN cleaning_log :
            IF cleaning_log[i].step # 8 THEN WithinRows(cleaning_log[i])
            ELSE /\ 0 <= cleaning_log[i].rows_affected
                 /\ cleaning_log[i].rows_affected <= 3 * cleaning_log[i].rows_before

\* this step is a transform_and_unify that raised on a GitHub or an Excel
\* source that lacks a column
UnifyFailed ==
    /\ cls = "BugReportETL" /\ calls' = calls + 1
    /\ fn' = "transform_and_unify" /\ raised'
    /\ readable(jira_data, SOURCE_FIELDS.JIRA)
    /\ \/ Lacks(github_data, SOURCE_FIELDS.GitHub)
       \/ readable(github_data, SOURCE_FIELDS.GitHub) /\ Lacks(excel_data, SOURCE_FIELDS.Excel)
\* C29: a transform_and_unify that fails because the GitHub or the Excel
\* source lacks a required field leaves cleaning_log as it was before the call.
C29_AsStated == [][UnifyFailed => cleaning_log' = cleaning_log]_vars
\* what holds: the failed call has appended the entries of the sources it had
\* transformed before the one it failed at
C29_EntriesOfEarlierSources ==
    [][UnifyFailed =>
          /\ IsPrefix(cleaning_log, cleaning_log')
          /\ Len(cleaning_log') - Len(cleaning_log) =
                IF Lacks(github_data, SOURCE_FIELDS.GitHub) THEN 1 ELSE 2]_vars

(***************************************************************************)
(* Claims about the computed fields (under Spec).                          *)
(***************************************************************************)
\* the seconds from instant c to instant d, fractions left out
SecondsFrom(c, d) == (d.days - c.days) * SecsPerDay + (d.secs - c.secs)
\* instant d is earlier than instant c
Earlier(d, c) ==
    \/ SecondsFrom(c, d) < 0
    \/ SecondsFrom(c, d) = 0 /\ Nanos(d) < Nanos(c)
\* the whole days elapsed from c to d, d not earlier than c
ElapsedDays(c, d) ==
    IF Nanos(d) < Nanos(c) THEN (SecondsFrom(c, d) - 1) \div SecsPerDay
    ELSE SecondsFrom(c, d) \div SecsPerDay
\* the last call computed the fields and returned
FieldsComputed ==
    /\ cls = "BugReportETL" /\ ~raised
    /\ fn \in {"add_computed_fields", "run_full_pipeline"}
\* C30: after add_computed_fields no record has a negative resolution_days:
\* it is missing whenever created_date or resolved_date is no valid instant
\* or resolved_date is earlier than created_date, and otherwise it is the
\* whole number (>= 0) of days elapsed from created_date to resolved_date.
C30_NoNegativeResolution ==
    FieldsComputed =>
        \A i \in DOMAIN unified_data.rows :
            LET r == unified_data.rows[i]
            IN  IF isna(r.created_date) \/ isna(r.resolved_date) THEN r.resolution_days = Null
                ELSE IF Earlier(r.resolved_date, r.created_date) THEN r.resolution_days = Null
                ELSE /\ r.resolution_days = Num(ElapsedDays(r.created_date, r.resolved_date))
                     /\ r.resolution_days.n >= 0
\* the issue that was closed before it was created has no resolution_days
C30_Witness ==
    /\ FieldsComputed /\ fn = "add_computed_fields"
    /\ github_data.rows = <<GithubRows[2]>>
    /\ Len(unified_data.rows) = 1
    /\ notna(unified_data.rows[1].created_date)
    /\ Earlier(unified_data.rows[1].resolved_date, unified_data.rows[1].created_date)
    /\ unified_data.rows[1].resolution_days = Null
\* a record resolved a day after it was created has resolution_days 1
C30_WitnessElapsed ==
    /\ FieldsComputed
    /\ \E i \in DOMAIN unified_data.rows :
          /\ notna(unified_data.rows[i].created_date)
          /\ unified_data.rows[i].resolution_days = Num(1)

====
